---- MODULE Spec2Model ----
(***************************************************************************)
(* Model of the happycompta-tools CSV loader (tools/loader): the column    *)
(* mapper, the reference indices, the account resolver, the row-to-entry   *)
(* converter, the batch driver parseCSV, loadImpl, the receipt folders     *)
(* (checkAndGetFiles, addReceipts) and the pipe of Client.AddEntry.        *)
(*                                                                         *)
(* Strings are sequences of one-character strings, so that trimming, case  *)
(* folding, concatenation and parsing are computed, not assumed.           *)
(***************************************************************************)
EXTENDS Integers, Sequences, FiniteSets, TLC

VARIABLES
    pc,        \* position of the operation under study
    args,      \* arguments of the function being called
    ret,       \* values the function returned
    reader,    \* csv.Reader: the records of the file still to be read
    rowIndex,  \* parseCSV: loop counter
    colMap,    \* parseCSV: the column map built from the header
    maps,      \* parseCSV: the four lookup maps
    entries,   \* parseCSV: entries built so far
    err,       \* the error returned
    file,      \* loadImpl: state of the os.File of the CSV file
    deferred,  \* loadImpl: the deferred calls not yet run
    submitted, \* loadImpl: the entries handed to client.AddEntry, with the outcome
    goroutine, \* AddEntry: the goroutine writing the form into the pipe
    pipe,      \* AddEntry: the io.Pipe between the form writer and the request body
    client     \* AddEntry: the http.Client, its CheckRedirect and the request it runs

vars == <<pc, args, ret, reader, rowIndex, colMap, maps, entries, err, file, deferred, submitted, goroutine, pipe, client>>

----------------------------------------------------------------------------
(* Strings *)

EmptyStr == <<>>

UpperChars == <<"A", "B", "C", "D", "E", "F", "G", "H", "I", "J", "K", "L", "M", "N",
                "O", "P", "Q", "R", "S", "T", "U", "V", "W", "X", "Y", "Z", "É">>

LowerChars == <<"a", "b", "c", "d", "e", "f", "g", "h", "i", "j", "k", "l", "m", "n",
                "o", "p", "q", "r", "s", "t", "u", "v", "w", "x", "y", "z", "é">>

\* the no-break space U+00A0 and the euro sign, as one-character tokens
NBSP == "nbsp"
Euro == "€"

\* unicode.IsSpace
SpaceChars == {" ", "\t", "\n", "\f", "\r", NBSP}

\* unicode.ToLower on one character
LowerChar(c) ==
    IF \E i \in DOMAIN UpperChars : UpperChars[i] = c
    THEN LowerChars[CHOOSE i \in DOMAIN UpperChars : UpperChars[i] = c]
    ELSE c

\* unicode.ToUpper on one character
UpperChar(c) ==
    IF \E i \in DOMAIN LowerChars : LowerChars[i] = c
    THEN UpperChars[CHOOSE i \in DOMAIN LowerChars : LowerChars[i] = c]
    ELSE c

\* strings.ToLower
ToLower(s) == [i \in DOMAIN s |-> LowerChar(s[i])]

\* strings.ToUpper
ToUpper(s) == [i \in DOMAIN s |-> UpperChar(s[i])]

\* strings.EqualFold: equality under simple case folding
EqualFold(s, t) ==
    /\ Len(s) = Len(t)
    /\ \A i \in DOMAIN s : LowerChar(s[i]) = LowerChar(t[i])

RECURSIVE TrimLeft(_)
TrimLeft(s) ==
    IF s # <<>> /\ Head(s) \in SpaceChars THEN TrimLeft(Tail(s)) ELSE s

RECURSIVE TrimRight(_)
TrimRight(s) ==
    IF s # <<>> /\ s[Len(s)] \in SpaceChars
    THEN TrimRight(SubSeq(s, 1, Len(s) - 1))
    ELSE s

\* strings.TrimSpace
TrimSpace(s) == TrimRight(TrimLeft(s))

\* slices.Contains
Contains(seq, x) == \E i \in DOMAIN seq : seq[i] = x

----------------------------------------------------------------------------
(* lib types *)

BudgetUndefined == 0
BudgetFON == 1
BudgetASC == 2

Budgets == {BudgetUndefined, BudgetFON, BudgetASC}

\* Budget.String
BudgetString(b) ==
    CASE b = BudgetFON -> <<"F", "O", "N">>
      [] b = BudgetASC -> <<"A", "S", "C">>
      [] OTHER -> <<"u", "n", "k", "n", "o", "w", "n">>

\* lib.NewBudgetFromString
NewBudgetFromString(s) ==
    LET upper == ToUpper(s) IN
    CASE upper = <<"F", "O", "N">> -> BudgetFON
      [] upper = <<"A", "E", "P">> -> BudgetFON
      [] upper = <<"A", "S", "C">> -> BudgetASC
      [] OTHER -> BudgetUndefined

\* the zero value of lib.Account
ZeroAccount == [ID |-> 0, Bank |-> EmptyStr, Budget |-> BudgetUndefined]

\* a nil error
NoError == [kind |-> "nil", args |-> <<>>, wraps |-> <<>>]

\* fmt.Errorf / errors.New: the message template and the strings formatted into it
Errorf(kind, a) == [kind |-> kind, args |-> a, wraps |-> <<>>]

\* fmt.Errorf with a trailing %w or %s of another error
Wrapf(kind, a, inner) == [kind |-> kind, args |-> a, wraps |-> <<inner>>]

KindUndefined == 0
KindSpend == 1
KindTake == 2
KindAllocation == 3

\* lib.NewKind: exact match, no case folding
NewKind(s) ==
    CASE s = <<"d", "e", "p", "e", "n", "s", "e", "s">> -> KindSpend
      [] s = <<"r", "e", "c", "e", "t", "t", "e", "s">> -> KindTake
      [] s = <<"a", "t", "t", "r", "i", "b", "u", "t", "i", "o", "n", "s">> -> KindAllocation
      [] OTHER -> KindUndefined

PaymentMethodUndefined == 0
PaymentMethodCheckReceived == 12
PaymentMethodCash == 13
PaymentMethodCard == 14
PaymentMethodTransfer == 15
PaymentMethodDirectDebit == 16
PaymentMethodCheckEmitted == 22
PaymentMethodCheckAllocation == 23

\* lib.NewPaymentMethodFromString
NewPaymentMethodFromString(s) ==
    LET lowerS == ToLower(s) IN
    CASE lowerS = <<"c", "h", "e", "c", "k", " ", "r", "e", "c", "e", "i", "v", "e", "d">> -> PaymentMethodCheckReceived
      [] lowerS = <<"c", "a", "s", "h">> -> PaymentMethodCash
      [] lowerS = <<"c", "a", "r", "d">> -> PaymentMethodCard
      [] lowerS = <<"t", "r", "a", "n", "s", "f", "e", "r">> -> PaymentMethodTransfer
      [] lowerS = <<"d", "i", "r", "e", "c", "t", " ", "d", "e", "b", "i", "t">> -> PaymentMethodDirectDebit
      [] lowerS = <<"c", "h", "e", "c", "k", " ", "e", "m", "i", "t", "t", "e", "d">> -> PaymentMethodCheckEmitted
      [] lowerS = <<"c", "h", "e", "c", "k", " ", "a", "l", "l", "o", "c", "a", "t", "i", "o", "n">> -> PaymentMethodCheckAllocation
      [] OTHER -> PaymentMethodUndefined

PeriodStatusUndefined == 0
PeriodStatusCurrent == 1
PeriodStatusProvisionallyClosed == 2
PeriodStatusDefinitelyClosed == 3

----------------------------------------------------------------------------
(* Numbers and dates in strings *)

DigitChars == <<"0", "1", "2", "3", "4", "5", "6", "7", "8", "9">>

IsDigit(c) == \E i \in DOMAIN DigitChars : DigitChars[i] = c

DigitVal(c) == (CHOOSE i \in DOMAIN DigitChars : DigitChars[i] = c) - 1

AllDigits(s) == \A i \in DOMAIN s : IsDigit(s[i])

\* the value of a string of decimal digits
RECURSIVE DecimalVal(_)
DecimalVal(s) ==
    IF s = <<>> THEN 0
    ELSE 10 * DecimalVal(SubSeq(s, 1, Len(s) - 1)) + DigitVal(s[Len(s)])

\* n written with exactly w digits
RECURSIVE FormatDigits(_, _)
FormatDigits(n, w) ==
    IF w = 0 THEN <<>>
    ELSE Append(FormatDigits(n \div 10, w - 1), DigitChars[(n % 10) + 1])

IsLeap(y) == (y % 4 = 0 /\ y % 100 # 0) \/ y % 400 = 0

DaysIn(m, y) ==
    IF m = 2 THEN (IF IsLeap(y) THEN 29 ELSE 28)
    ELSE IF m \in {4, 6, 9, 11} THEN 30 ELSE 31

\* the zero time.Time
ZeroDate == [day |-> 1, month |-> 1, year |-> 1]

\* time.Parse(lib.DateLayout, s) with DateLayout = "02/01/2006"
ParseDate(s) ==
    IF /\ Len(s) = 10
       /\ s[3] = "/"
       /\ s[6] = "/"
       /\ AllDigits(SubSeq(s, 1, 2))
       /\ AllDigits(SubSeq(s, 4, 5))
       /\ AllDigits(SubSeq(s, 7, 10))
    THEN LET d == DecimalVal(SubSeq(s, 1, 2))
             m == DecimalVal(SubSeq(s, 4, 5))
             y == DecimalVal(SubSeq(s, 7, 10))
         IN IF m \in 1..12 /\ d >= 1 /\ d <= DaysIn(m, y)
            THEN [ok |-> TRUE, value |-> [day |-> d, month |-> m, year |-> y]]
            ELSE [ok |-> FALSE, value |-> ZeroDate]
    ELSE [ok |-> FALSE, value |-> ZeroDate]

\* Time.Format(lib.DateLayout)
FormatDate(t) ==
    FormatDigits(t.day, 2) \o <<"/">> \o FormatDigits(t.month, 2) \o <<"/">>
        \o FormatDigits(t.year, 4)

\* strconv.Atoi whose value is lost to a shadowed variable
AtoiShadowed(s) ==
    LET digits == IF s # <<>> /\ s[1] \in {"+", "-"} THEN Tail(s) ELSE s
    IN [ok |-> digits # <<>> /\ AllDigits(digits), value |-> 0]

\* strconv.Atoi: an optional sign and at least one decimal digit
Atoi(s) ==
    LET signed == s # <<>> /\ s[1] \in {"+", "-"}
        digits == IF signed THEN Tail(s) ELSE s
    IN IF digits # <<>> /\ AllDigits(digits)
       THEN [ok |-> TRUE,
             value |-> IF signed /\ s[1] = "-" THEN 0 - DecimalVal(digits)
                       ELSE DecimalVal(digits)]
       ELSE [ok |-> FALSE, value |-> 0]

\* strings.ReplaceAll(s, c, "") for a one-character c, or s left as it is
KeepChar(s, c) == s

RemoveChar(s, c) == SelectSeq(s, LAMBDA x : x # c)

\* strings.ReplaceAll(s, c, d) for one-character c and d
ReplaceChar(s, c, d) == [i \in DOMAIN s |-> IF s[i] = c THEN d ELSE s[i]]

\* \s of the regular expression syntax
RegexSpace == {" ", "\t", "\n", "\f", "\r"}

\* the longest prefix of s made of characters of the set
RECURSIVE PrefixIn(_, _)
PrefixIn(s, set) ==
    IF s # <<>> /\ Head(s) \in set THEN <<Head(s)>> \o PrefixIn(Tail(s), set) ELSE <<>>

DigitSet == {DigitChars[i] : i \in DOMAIN DigitChars}

\* (,\d{3})*
RECURSIVE IsGroups(_)
IsGroups(s) ==
    \/ s = <<>>
    \/ /\ Len(s) >= 4
       /\ s[1] = ","
       /\ AllDigits(SubSeq(s, 2, 4))
       /\ IsGroups(SubSeq(s, 5, Len(s)))

\* (\d{1,3}(,\d{3})*|\d+)
IsIntegerPart(s) ==
    \/ s # <<>> /\ AllDigits(s)
    \/ \E n \in 1..3 :
        /\ Len(s) >= n
        /\ AllDigits(SubSeq(s, 1, n))
        /\ IsGroups(SubSeq(s, n + 1, Len(s)))

\* (\.\d{2})?\s?€?$
IsAmountTail(s) ==
    LET s1 == IF Len(s) >= 3 /\ s[1] = "." /\ AllDigits(SubSeq(s, 2, 3))
              THEN SubSeq(s, 4, Len(s)) ELSE s
        s2 == IF s1 # <<>> /\ s1[1] \in RegexSpace THEN Tail(s1) ELSE s1
        s3 == IF s2 # <<>> /\ s2[1] = Euro THEN Tail(s2) ELSE s2
    IN s3 = <<>>

\* usCurrencyRegex.MatchString: ^€?\s?(\d{1,3}(,\d{3})*|\d+)(\.\d{2})?\s?€?$
MatchesUS(s) ==
    LET s1 == IF s # <<>> /\ s[1] = Euro THEN Tail(s) ELSE s
        s2 == IF s1 # <<>> /\ s1[1] \in RegexSpace THEN Tail(s1) ELSE s1
        int == PrefixIn(s2, DigitSet \cup {","})
    IN \E n \in 1..Len(int) :
        /\ IsIntegerPart(SubSeq(int, 1, n))
        /\ IsAmountTail(SubSeq(s2, n + 1, Len(s2)))

\* a decimal value: mant / 10^scale, without trailing zeros in the fraction
RECURSIVE Normalize(_, _)
Normalize(mant, scale) ==
    IF scale > 0 /\ mant % 10 = 0 THEN Normalize(mant \div 10, scale - 1)
    ELSE [mant |-> mant, scale |-> scale]

ZeroAmount == [mant |-> 0, scale |-> 0]

\* a parse that stops at the first character no number holds
ParseFloatPrefix(s) ==
    LET int == PrefixIn(s, DigitSet)
    IN IF int # <<>>
       THEN [ok |-> TRUE, value |-> Normalize(DecimalVal(int), 0)]
       ELSE [ok |-> FALSE, value |-> ZeroAmount]

\* strconv.ParseFloat(s, 64) on the characters the model writes amounts with
\* (digits, sign, dot and characters no number contains): decimal notation
ParseFloat(s) ==
    LET signed == s # <<>> /\ s[1] \in {"+", "-"}
        body == IF signed THEN Tail(s) ELSE s
        int == PrefixIn(body, DigitSet)
        rest == SubSeq(body, Len(int) + 1, Len(body))
        frac == IF rest # <<>> /\ rest[1] = "." THEN Tail(rest) ELSE <<>>
        wellFormed == /\ rest = <<>> \/ rest[1] = "."
                      /\ AllDigits(frac)
                      /\ Len(int) + Len(frac) >= 1
        mant == DecimalVal(int \o frac)
    IN IF wellFormed
       THEN [ok |-> TRUE,
             value |-> Normalize(IF signed /\ s[1] = "-" THEN 0 - mant ELSE mant, Len(frac))]
       ELSE [ok |-> FALSE, value |-> ZeroAmount]

\* parseAmount
parseAmount(input) ==
    IF input = EmptyStr
    THEN [value |-> ZeroAmount, err |-> Errorf("amount is missing or empty", <<>>)]
    ELSE LET noEuro == RemoveChar(input, Euro)
             cleanInput ==
                 IF MatchesUS(input)
                 THEN TrimSpace(RemoveChar(noEuro, ","))
                 ELSE ReplaceChar(
                          RemoveChar(RemoveChar(RemoveChar(noEuro, "."), " "), NBSP),
                          ",", ".")
             amount == ParseFloat(cleanInput)
         IN IF amount.ok
            THEN [value |-> amount.value, err |-> NoError]
            ELSE [value |-> ZeroAmount,
                  err |-> Errorf("failed to parse amount", <<input, cleanInput>>)]

----------------------------------------------------------------------------
(* Account resolver *)

\* the distinct bank names, in order of first appearance (csv.go:397-402)
RECURSIVE BanksOf(_)
BanksOf(accounts) ==
    IF accounts = <<>> THEN <<>>
    ELSE LET init == BanksOf(SubSeq(accounts, 1, Len(accounts) - 1))
             bank == accounts[Len(accounts)].Bank
         IN IF Contains(init, bank) THEN init ELSE Append(init, bank)

\* MatchAccount with the catch-all accounts tried before the budget's own
MatchAccountUniversalFirst(accounts, bank, budget) ==
    LET IsBudget(a) == EqualFold(a.Bank, bank) /\ a.Budget = budget
        IsAll(a) == /\ EqualFold(a.Bank, bank)
                    /\ a.Budget # budget
                    /\ a.Budget = BudgetUndefined
        matching == SelectSeq(accounts, IsBudget)
        matchingAllBudgets == SelectSeq(accounts, IsAll)
    IN  IF Len(matchingAllBudgets) = 1
        THEN [result |-> matchingAllBudgets[1], err |-> NoError, panic |-> FALSE]
        ELSE IF Len(matching) = 1
        THEN [result |-> matching[1], err |-> NoError, panic |-> FALSE]
        ELSE [result |-> ZeroAccount,
              err |-> Errorf("no account found matching the budget at bank",
                             <<BudgetString(budget), bank>>),
              panic |-> FALSE]

\* MatchAccount taking the first account when several match
MatchAccountFirstWins(accounts, bank, budget) ==
    LET IsBudget(a) == EqualFold(a.Bank, bank) /\ a.Budget = budget
        IsAll(a) == /\ EqualFold(a.Bank, bank)
                    /\ a.Budget # budget
                    /\ a.Budget = BudgetUndefined
        matching == SelectSeq(accounts, IsBudget)
        matchingAllBudgets == SelectSeq(accounts, IsAll)
    IN  IF Len(matching) >= 1
        THEN [result |-> matching[1], err |-> NoError, panic |-> FALSE]
        ELSE IF Len(matchingAllBudgets) >= 1
        THEN [result |-> matchingAllBudgets[1], err |-> NoError, panic |-> FALSE]
        ELSE [result |-> ZeroAccount,
              err |-> Errorf("no account found matching the budget at bank",
                             <<BudgetString(budget), bank>>),
              panic |-> FALSE]

\* MatchAccount looking at the bank alone
MatchAccountAnyBudget(accounts, bank, budget) ==
    LET AtBank(a) == EqualFold(a.Bank, bank)
        matching == SelectSeq(accounts, AtBank)
    IN  IF Len(matching) >= 1
        THEN [result |-> matching[1], err |-> NoError, panic |-> FALSE]
        ELSE [result |-> ZeroAccount,
              err |-> Errorf("no account found matching the budget at bank",
                             <<BudgetString(budget), bank>>),
              panic |-> FALSE]

\* the resolution once the bank name is known (csv.go:412-450)
MatchAccount(accounts, bank, budget) ==
    LET IsBudget(a) == EqualFold(a.Bank, bank) /\ a.Budget = budget
        IsAll(a) == /\ EqualFold(a.Bank, bank)
                    /\ a.Budget # budget
                    /\ a.Budget = BudgetUndefined
        matching == SelectSeq(accounts, IsBudget)
        matchingAllBudgets == SelectSeq(accounts, IsAll)
    IN  IF Len(matching) = 1
        THEN [result |-> matching[1], err |-> NoError, panic |-> FALSE]
        ELSE IF Len(matching) > 1
        THEN [result |-> ZeroAccount,
              err |-> Errorf("more than one account found for the budget at bank",
                             <<BudgetString(budget), bank>>),
              panic |-> FALSE]
        ELSE IF Len(matchingAllBudgets) = 1
        THEN [result |-> matchingAllBudgets[1], err |-> NoError, panic |-> FALSE]
        ELSE IF Len(matchingAllBudgets) > 1
        THEN [result |-> ZeroAccount,
              err |-> Errorf("more than one account found for the both budgets at bank",
                             <<bank>>),
              panic |-> FALSE]
        ELSE [result |-> ZeroAccount,
              err |-> Errorf("no account found matching the budget at bank",
                             <<BudgetString(budget), bank>>),
              panic |-> FALSE]

\* getAccountFromBankBudget without the defaulting of an empty bank name
getAccountNoDefaultBank(accounts, bank, budget) ==
    LET banks == BanksOf(accounts) IN
    IF bank = EmptyStr /\ Len(banks) > 1
    THEN [result |-> ZeroAccount,
          err |-> Errorf("more than one bank found", <<>>),
          panic |-> FALSE]
    ELSE MatchAccount(accounts, bank, budget)

\* getAccountFromBankBudget; panic is the run-time failure of banks[0] on an
\* empty slice
getAccountFromBankBudget(accounts, bank, budget) ==
    LET banks == BanksOf(accounts) IN
    IF bank = EmptyStr
    THEN IF Len(banks) > 1
         THEN [result |-> ZeroAccount,
               err |-> Errorf("more than one bank found", <<>>),
               panic |-> FALSE]
         ELSE IF Len(banks) = 0
         THEN [result |-> ZeroAccount, err |-> NoError, panic |-> TRUE]
         ELSE MatchAccount(accounts, banks[1], budget)
    ELSE MatchAccount(accounts, bank, budget)

----------------------------------------------------------------------------
(* Reference indices *)

\* the Go map built by assigning m[keys[i]] = slice[i] for each i in turn
MapOf(slice, keys) ==
    [k \in {keys[i] : i \in DOMAIN slice} |->
        slice[CHOOSE i \in DOMAIN slice :
                /\ keys[i] = k
                /\ \A j \in DOMAIN slice : keys[j] = k => j <= i]]

\* the key "<budget>|<name>" of the categories map
CategoryKey(budget, name) == BudgetString(budget) \o <<"|">> \o name

createCategoriesMap(slice) ==
    LET Key(category) == CategoryKey(category.Budget, category.Name)
    IN MapOf(slice, [i \in DOMAIN slice |-> Key(slice[i])])

createEmployeesMap(slice) ==
    LET Key(employee) == ToLower(employee.Lastname \o <<" ">> \o employee.Firstname)
    IN MapOf(slice, [i \in DOMAIN slice |-> Key(slice[i])])

createProvidersMap(slice) ==
    LET Key(provider) == ToLower(provider.Name)
    IN MapOf(slice, [i \in DOMAIN slice |-> Key(slice[i])])

createPeriodsMap(slice) ==
    LET Key(period) == FormatDate(period.Start) \o <<"-">> \o FormatDate(period.End)
        dated == MapOf(slice, [i \in DOMAIN slice |-> Key(slice[i])])
        current == {i \in DOMAIN slice : slice[i].Status = PeriodStatusCurrent}
    IN [k \in DOMAIN dated \cup (IF current = {} THEN {} ELSE {EmptyStr}) |->
            IF k = EmptyStr
            THEN slice[CHOOSE i \in current : \A j \in current : j <= i]
            ELSE dated[k]]

----------------------------------------------------------------------------
(* Column mapper *)

\* the fields of columnMap, in the order of the map literal of buildColumnMap
Fields == <<"Name", "Date", "Amount", "Stock", "Category", "Comment", "Payment",
            "Budget", "Employee", "Provider", "Kind", "Period", "Bank">>

FieldSet == {Fields[i] : i \in DOMAIN Fields}

\* colMap[headerName] of buildColumnMap: the literal's later entries overwrite the
\* earlier ones holding the same key
FieldIndexOf(columns, headerName) ==
    LET hits == {i \in DOMAIN Fields : columns[Fields[i]] = headerName}
    IN IF hits = {} THEN 0 ELSE CHOOSE i \in hits : \A j \in hits : j <= i

\* the loop over the header, from cell i on (cells are numbered from 0 in the result)
RECURSIVE MapHeaderFrom(_, _, _, _)
MapHeaderFrom(result, header, columns, i) ==
    IF i > Len(header) THEN result
    ELSE LET headerName == header[i]
             f == FieldIndexOf(columns, headerName)
         IN MapHeaderFrom(
                IF f # 0 /\ headerName # EmptyStr
                THEN [result EXCEPT ![Fields[f]] = i - 1]
                ELSE result,
                header, columns, i + 1)

\* buildColumnMap recording the indices counted from 1
buildColumnMapOneBased(header, columns) ==
    LET zeroBased == MapHeaderFrom([f \in FieldSet |-> -1], header, columns, 1)
    IN [f \in FieldSet |-> IF zeroBased[f] = -1 THEN -1 ELSE zeroBased[f] + 1]

buildColumnMap(header, columns) ==
    MapHeaderFrom([f \in FieldSet |-> -1], header, columns, 1)

getField(row, colIndex) ==
    IF colIndex >= 0 /\ colIndex < Len(row) THEN TrimSpace(row[colIndex + 1]) ELSE EmptyStr

getOptionalField(row, colIndex, defaultValue) ==
    LET value == getField(row, colIndex)
    IN IF value = EmptyStr THEN defaultValue ELSE value

----------------------------------------------------------------------------
(* Row-to-entry converter *)

NoParty == [type |-> "nil", ID |-> EmptyStr]

\* the zero value of lib.Entry
ZeroEntry ==
    [Period |-> EmptyStr, Kind |-> KindUndefined, Date |-> ZeroDate, Name |-> EmptyStr,
     Budget |-> BudgetUndefined, Allocation |-> <<>>, Party |-> NoParty,
     PaymentMethod |-> PaymentMethodUndefined, Account |-> ZeroAccount,
     Comment |-> EmptyStr, Receipts |-> <<>>]

\* %d of a non-negative integer
RECURSIVE FormatInt(_)
FormatInt(n) ==
    IF n < 10 THEN <<DigitChars[n + 1]>>
    ELSE Append(FormatInt(n \div 10), DigitChars[(n % 10) + 1])

\* Kind.String
KindString(k) ==
    CASE k = KindSpend -> <<"d", "e", "p", "e", "n", "s", "e", "s">>
      [] k = KindTake -> <<"r", "e", "c", "e", "t", "t", "e", "s">>
      [] k = KindAllocation -> <<"a", "t", "t", "r", "i", "b", "u", "t", "i", "o", "n", "s">>
      [] OTHER -> <<"u", "n", "k", "n", "o", "w", "n">>

\* the values createEntryFromRow returns
Return(entry, e) == [entry |-> entry, err |-> e, panic |-> FALSE]

createEntryFromRow(row, cmap, defaults, rowIdx, accounts, categories, employees, providers, periods) ==
    LET dateStr == getField(row, cmap.Date)
        date == ParseDate(dateStr)
        entry1 == [ZeroEntry EXCEPT !.Date = date.value,
                                    !.Name = getField(row, cmap.Name)]
        amountStr == getField(row, cmap.Amount)
        amount == parseAmount(amountStr)
        kind == getOptionalField(row, cmap.Kind, defaults.Kind)
        entry2 == [entry1 EXCEPT !.Comment = getField(row, cmap.Comment),
                                 !.Kind = NewKind(kind)]
        budgetStr == getOptionalField(row, cmap.Budget, defaults.Budget)
        entry3 == IF budgetStr # EmptyStr
                  THEN [entry2 EXCEPT !.Budget = NewBudgetFromString(budgetStr)]
                  ELSE entry2
        paymentMethodStr == getOptionalField(row, cmap.Payment, defaults.Payment)
        paymentMethod == NewPaymentMethodFromString(paymentMethodStr)
        entry4 == [entry3 EXCEPT !.PaymentMethod = paymentMethod]
        categoryName == getOptionalField(row, cmap.Category, defaults.Category)
        categoryKey == CategoryKey(entry4.Budget, categoryName)
        category == categories[categoryKey]
        stockStr == getField(row, cmap.Stock)
        stock == IF category.Stock THEN Atoi(stockStr) ELSE [ok |-> TRUE, value |-> 0]
        entry5 == [entry4 EXCEPT !.Allocation =
                      <<[CategoryID |-> category.ID,
                         Amount |-> amount.value,
                         Stock |-> stock.value]>>]
        employeeStr == getField(row, cmap.Employee)
        providerStr == getField(row, cmap.Provider)
        employeeKey == ToLower(employeeStr)
        entry6 == IF employeeStr # EmptyStr
                  THEN [entry5 EXCEPT !.Party =
                           [type |-> "Employee", ID |-> employees[employeeKey].ID]]
                  ELSE entry5
        providerKey == ToLower(providerStr)
        entry7 == IF providerStr # EmptyStr
                  THEN [entry6 EXCEPT !.Party =
                           [type |-> "Provider", ID |-> providers[providerKey].ID]]
                  ELSE entry6
        cell == getField(row, cmap.Period)
        periodStr == IF cell = EmptyStr THEN defaults.Period ELSE cell
        entry8 == [entry7 EXCEPT !.Period = periods[periodStr].ID]
        bank == getOptionalField(row, cmap.Bank, defaults.Bank)
        account == getAccountFromBankBudget(accounts, bank, entry8.Budget)
    IN  IF dateStr = EmptyStr
        THEN Return(ZeroEntry, Errorf("date column is missing or empty", <<>>))
        ELSE IF ~date.ok
        THEN Return(ZeroEntry,
                    Wrapf("failed to parse date", <<dateStr>>,
                          Errorf("parsing time", <<dateStr>>)))
        ELSE IF amountStr = EmptyStr
        THEN Return(entry1, Errorf("amount column is missing or empty", <<>>))
        ELSE IF amount.err # NoError
        THEN Return(entry1, Wrapf("failed to parse amount", <<amountStr>>, amount.err))
        ELSE IF entry2.Kind = KindUndefined
        THEN Return(entry2,
                    Errorf("invalid entry type",
                           <<kind, FormatInt(rowIdx), KindString(KindSpend),
                             KindString(KindTake), KindString(KindAllocation)>>))
        ELSE IF entry3.Budget = BudgetUndefined
        THEN Return(entry3, Errorf("invalid budget", <<budgetStr, FormatInt(rowIdx)>>))
        ELSE IF paymentMethodStr = EmptyStr
        THEN Return(entry3, Errorf("missing payment method", <<FormatInt(rowIdx)>>))
        ELSE IF paymentMethod = PaymentMethodUndefined
        THEN Return(entry3,
                    Errorf("invalid payment method",
                           <<paymentMethodStr, FormatInt(rowIdx)>>))
        ELSE IF categoryKey \notin DOMAIN categories
        THEN Return(entry4,
                    Errorf("invalid category name / budget combination",
                           <<categoryName, BudgetString(entry4.Budget),
                             FormatInt(rowIdx)>>))
        ELSE IF category.Stock /\ stockStr = EmptyStr
        THEN Return(entry4,
                    Errorf("no stock defined but category needs it",
                           <<FormatInt(rowIdx), category.Name>>))
        ELSE IF ~stock.ok
        THEN Return(entry4,
                    Errorf("failed to parse stock as an integer",
                           <<stockStr, FormatInt(rowIdx)>>))
        ELSE IF employeeStr # EmptyStr /\ providerStr # EmptyStr
        THEN Return(entry5,
                    Errorf("row has both employee and provider specified",
                           <<FormatInt(rowIdx), employeeStr, providerStr>>))
        ELSE IF employeeStr # EmptyStr /\ employeeKey \notin DOMAIN employees
        THEN Return(entry5,
                    Errorf("unknown employee", <<employeeStr, FormatInt(rowIdx)>>))
        ELSE IF providerStr # EmptyStr /\ providerKey \notin DOMAIN providers
        THEN Return(entry6,
                    Errorf("unknown provider", <<providerStr, FormatInt(rowIdx)>>))
        ELSE IF periodStr \notin DOMAIN periods
        THEN Return(entry7,
                    Errorf("couldn't find the period", <<periodStr, FormatInt(rowIdx)>>))
        ELSE IF account.panic
        THEN [entry |-> entry8, err |-> NoError, panic |-> TRUE]
        ELSE IF account.err # NoError
        THEN Return(entry8, account.err)
        ELSE Return([entry8 EXCEPT !.Account = account.result], NoError)

----------------------------------------------------------------------------
(* Inputs of the account resolver *)

MaxAccounts == 3

BankNames == {<<"B">>, <<"b">>, <<"C">>}

\* the accounts as ListAccounts returns them: distinct identifiers
AccountLists ==
    UNION {
        {[i \in 1..n |-> [ID |-> 10 * i, Bank |-> shape[i][1], Budget |-> shape[i][2]]] :
            shape \in [1..n -> BankNames \X Budgets]} :
        n \in 0..MaxAccounts}

Idle == [none |-> TRUE]

\* parseCSV is not running
ParserIdle ==
    /\ reader = <<>>
    /\ rowIndex = 0
    /\ colMap = Idle
    /\ maps = Idle
    /\ entries = <<>>
    /\ err = NoError
    /\ file = "none"
    /\ deferred = <<>>
    /\ submitted = <<>>
    /\ goroutine = Idle
    /\ pipe = Idle
    /\ client = Idle

parserVars == <<reader, rowIndex, colMap, maps, entries, err, file, deferred, submitted, goroutine, pipe, client>>

InitAccount ==
    /\ pc = "call"
    /\ args \in [accounts : AccountLists,
                  bank : BankNames \cup {EmptyStr},
                  budget : Budgets]
    /\ ret = Idle
    /\ ParserIdle

CallGetAccount ==
    /\ pc = "call"
    /\ ret' = getAccountFromBankBudget(args.accounts, args.bank, args.budget)
    /\ pc' = "done"
    /\ UNCHANGED <<args, parserVars>>

NextAccount == CallGetAccount

SpecAccount == InitAccount /\ [][NextAccount]_vars

----------------------------------------------------------------------------
(* Claims on the account resolver, checked under SpecAccount *)

\* the bank names present in the list
BankNameSet(accounts) == {accounts[i].Bank : i \in DOMAIN accounts}

\* a bank name was supplied, or a single one is present
BankResolved(a) ==
    a.bank # EmptyStr \/ Cardinality(BankNameSet(a.accounts)) = 1

ResolvedBank(a) ==
    IF a.bank # EmptyStr THEN a.bank ELSE CHOOSE b \in BankNameSet(a.accounts) : TRUE

\* positions of the accounts at the resolved bank holding the requested budget
ExactAt(a) ==
    {i \in DOMAIN a.accounts :
        /\ EqualFold(a.accounts[i].Bank, ResolvedBank(a))
        /\ a.accounts[i].Budget = a.budget}

\* positions of the accounts at the resolved bank with an undefined budget
UniversalAt(a) ==
    {i \in DOMAIN a.accounts :
        /\ EqualFold(a.accounts[i].Bank, ResolvedBank(a))
        /\ a.accounts[i].Budget = BudgetUndefined}

AmbiguousAccountKinds ==
    {"more than one account found for the budget at bank",
     "more than one account found for the both budgets at bank"}

\* C3: when exactly one account at the resolved bank has the requested budget,
\* that account is returned without error, however many undefined-budget
\* accounts the bank has.
C3_ExactBudgetPreferred ==
    (pc = "done" /\ BankResolved(args) /\ Cardinality(ExactAt(args)) = 1) =>
        /\ ret.err = NoError
        /\ ~ret.panic
        /\ ret.result = args.accounts[CHOOSE i \in ExactAt(args) : TRUE]

C3_Witness ==
    /\ pc = "done"
    /\ BankResolved(args)
    /\ args.budget # BudgetUndefined
    /\ Cardinality(ExactAt(args)) = 1
    /\ Cardinality(UniversalAt(args)) >= 2
    /\ ret.err = NoError
    /\ ret.result.Budget = args.budget

\* C4: two or more exact-budget accounts at the resolved bank give an
\* ambiguous-account error; with none, one undefined-budget account is returned,
\* several give an ambiguous-account error and none gives account-not-found; an
\* error never comes with an account.
C4_FailureOutcomes ==
    (pc = "done" /\ BankResolved(args)) =>
        LET exact == Cardinality(ExactAt(args))
            universal == Cardinality(UniversalAt(args))
        IN  /\ ~ret.panic
            /\ exact >= 2 =>
                    ret.err.kind = "more than one account found for the budget at bank"
            /\ (exact = 0 /\ universal = 1) =>
                    /\ ret.err = NoError
                    /\ ret.result = args.accounts[CHOOSE i \in UniversalAt(args) : TRUE]
            /\ (exact = 0 /\ universal >= 2) =>
                    ret.err.kind = "more than one account found for the both budgets at bank"
            /\ (exact = 0 /\ universal = 0) =>
                    ret.err.kind = "no account found matching the budget at bank"
            /\ ret.err # NoError => ret.result = ZeroAccount

C4_Witness ==
    /\ pc = "done"
    /\ BankResolved(args)
    /\ args.budget # BudgetUndefined
    /\ Cardinality(ExactAt(args)) >= 2
    /\ Cardinality(UniversalAt(args)) >= 1
    /\ ret.err.kind \in AmbiguousAccountKinds
    /\ ret.result = ZeroAccount

\* C5: with no bank name supplied, accounts spanning several distinct bank names
\* give the more-than-one-bank error; with a single bank name present the outcome
\* is the one of a call supplying that name.
C5_EmptyBankName ==
    (pc = "done" /\ args.bank = EmptyStr /\ args.accounts # <<>>) =>
        LET names == BankNameSet(args.accounts) IN
        /\ Cardinality(names) > 1 =>
                /\ ret.err.kind = "more than one bank found"
                /\ ret.result = ZeroAccount
        /\ Cardinality(names) = 1 =>
                ret = getAccountFromBankBudget(
                          args.accounts, CHOOSE b \in names : TRUE, args.budget)

C5_Witness ==
    /\ pc = "done"
    /\ args.bank = EmptyStr
    /\ Len(args.accounts) >= 2
    /\ Cardinality(BankNameSet(args.accounts)) = 1
    /\ ret.err = NoError
    /\ ret.result \in {args.accounts[i] : i \in DOMAIN args.accounts}

----------------------------------------------------------------------------
(* Column mapper: inputs and specification *)

MaxHeader == 3

\* all sequences of length at most n over the set
SeqsUpTo(set, n) == UNION {[1..k -> set] : k \in 0..n}

\* the column names of getMinimalColMap (csv.go:661-681)
MinimalColumns ==
    [Name |-> <<"N", "A", "M", "E">>, Date |-> <<"D", "A", "T", "E">>, Amount |-> <<"A", "M", "O", "U", "N", "T">>, Stock |-> <<"S", "T", "O", "C", "K">>,
     Category |-> <<"C", "A", "T", "E", "G", "O", "R", "Y">>, Comment |-> <<"C", "O", "M", "M", "E", "N", "T">>, Payment |-> <<"P", "A", "Y", "M", "E", "N", "T">>,
     Budget |-> <<"B", "U", "D", "G", "E", "T">>, Employee |-> <<"E", "M", "P", "L", "O", "Y", "E", "E">>, Provider |-> <<"P", "R", "O", "V", "I", "D", "E", "R">>,
     Kind |-> <<"K", "I", "N", "D">>, Period |-> <<"P", "E", "R", "I", "O", "D">>, Bank |-> <<"B", "A", "N", "K">>]

\* the column names the loader's flags default to (main.go:66-79): the stock
\* column is named like the amount column and no flag names the kind column
DefaultFlagColumns ==
    [Name |-> <<"n", "a", "m", "e">>, Date |-> <<"d", "a", "t", "e">>, Amount |-> <<"a", "m", "o", "u", "n", "t">>, Stock |-> <<"a", "m", "o", "u", "n", "t">>,
     Category |-> <<"c", "a", "t", "e", "g", "o", "r", "y">>, Comment |-> <<"c", "o", "m", "m", "e", "n", "t">>, Payment |-> <<"p", "a", "y", "m", "e", "n", "t">>,
     Budget |-> <<"b", "u", "d", "g", "e", "t">>, Employee |-> <<"e", "m", "p", "l", "o", "y", "e", "e">>, Provider |-> <<"p", "r", "o", "v", "i", "d", "e", "r">>,
     Kind |-> EmptyStr, Period |-> <<"p", "e", "r", "i", "o", "d">>, Bank |-> <<"a", "c", "c", "o", "u", "n", "t">>]

ConfiguredNamePool == {EmptyStr, <<"D", "A", "T", "E">>, <<"A", "M", "O", "U", "N", "T">>, <<"S", "T", "O", "C", "K">>}

\* configurations differing from MinimalColumns in the date, amount and stock names
ColumnConfigs ==
    {[MinimalColumns EXCEPT !.Date = d, !.Amount = a, !.Stock = k] :
        d \in ConfiguredNamePool, a \in ConfiguredNamePool, k \in ConfiguredNamePool}

HeaderCellPool == {<<"D", "A", "T", "E">>, <<"A", "M", "O", "U", "N", "T">>, <<" ", "D", "A", "T", "E">>, <<"D", "a", "t", "e">>, EmptyStr}

InitColumns ==
    /\ pc = "call"
    /\ args \in [header : SeqsUpTo(HeaderCellPool, MaxHeader), columns : ColumnConfigs]
    /\ ret = Idle
    /\ ParserIdle

CallBuildColumnMap ==
    /\ pc = "call"
    /\ ret' = buildColumnMap(args.header, args.columns)
    /\ pc' = "done"
    /\ UNCHANGED <<args, parserVars>>

NextColumns == CallBuildColumnMap

SpecColumns == InitColumns /\ [][NextColumns]_vars

\* C7: for each of the 13 fields the mapped index is the index of the last header
\* cell whose text is exactly the field's configured name, when that name is
\* non-empty and occurs in the header, and -1 otherwise.
C7_ColumnMapReference ==
    pc = "done" =>
        \A f \in FieldSet :
            LET name == args.columns[f]
                hits == {i \in DOMAIN args.header : args.header[i] = name}
            IN ret[f] = IF name # EmptyStr /\ hits # {}
                        THEN (CHOOSE i \in hits : \A j \in hits : j <= i) - 1
                        ELSE -1

----------------------------------------------------------------------------
(* Reference data and rows given to the converter *)

\* categories after getMockCategories (csv.go:622-630): one per budget without
\* stock, one requiring stock
RowCategories ==
    <<[ID |-> 101, Name |-> <<"R", "e", "n", "t">>, Budget |-> BudgetFON, Stock |-> FALSE],
      [ID |-> 200, Name |-> <<"G", "i", "f", "t", "s">>, Budget |-> BudgetASC, Stock |-> FALSE],
      [ID |-> 201, Name |-> <<"C", "h", "e", "c", "k">>, Budget |-> BudgetASC, Stock |-> TRUE]>>

RowEmployees ==
    <<[ID |-> <<"E", "1", "0">>, Lastname |-> <<"D", "O", "E">>, Firstname |-> <<"J", "O">>],
      [ID |-> <<"E", "1", "1">>, Lastname |-> <<"M", "é">>, Firstname |-> <<"P", "é">>]>>

RowProviders == <<[ID |-> <<"P", "5", "0">>, Name |-> <<"T", "e", "c", "h", "C", "o", "r", "p">>]>>

\* the periods of getMockPeriods (csv.go:632-647)
RowPeriods ==
    <<[ID |-> <<"1", "2", "3", "4", "5">>, Status |-> PeriodStatusCurrent,
       Start |-> [day |-> 1, month |-> 1, year |-> 2025],
       End |-> [day |-> 31, month |-> 12, year |-> 2025]],
      [ID |-> <<"1", "2", "3", "4", "6">>, Status |-> PeriodStatusDefinitelyClosed,
       Start |-> [day |-> 1, month |-> 1, year |-> 2024],
       End |-> [day |-> 31, month |-> 12, year |-> 2024]]>>

\* one account per budget and a catch-all at bank B, one account at bank C
RowAccounts ==
    <<[ID |-> 10, Bank |-> <<"B">>, Budget |-> BudgetFON],
      [ID |-> 20, Bank |-> <<"B">>, Budget |-> BudgetUndefined],
      [ID |-> 30, Bank |-> <<"C">>, Budget |-> BudgetASC]>>

NoDefaults ==
    [Budget |-> EmptyStr, Bank |-> EmptyStr, Category |-> EmptyStr,
     Payment |-> EmptyStr, Kind |-> EmptyStr, Period |-> EmptyStr]

\* the defaults of getBaseDefaults (csv.go:650-658), with a default bank
BaseDefaults ==
    [Budget |-> <<"F", "O", "N">>, Bank |-> <<"B">>, Category |-> <<"R", "e", "n", "t">>,
     Payment |-> <<"c", "a", "r", "d">>, Kind |-> <<"d", "e", "p", "e", "n", "s", "e", "s">>, Period |-> EmptyStr]

\* the header of getMinimalColMap, and the field each of its columns holds
MinimalHeader ==
    <<<<"D", "A", "T", "E">>, <<"N", "A", "M", "E">>, <<"A", "M", "O", "U", "N", "T">>, <<"C", "A", "T", "E", "G", "O", "R", "Y">>, <<"B", "U", "D", "G", "E", "T">>, <<"E", "M", "P", "L", "O", "Y", "E", "E">>, <<"P", "R", "O", "V", "I", "D", "E", "R">>,
      <<"P", "A", "Y", "M", "E", "N", "T">>, <<"K", "I", "N", "D">>, <<"C", "O", "M", "M", "E", "N", "T">>, <<"S", "T", "O", "C", "K">>, <<"P", "E", "R", "I", "O", "D">>, <<"B", "A", "N", "K">>>>

MinimalHeaderFields ==
    <<"Date", "Name", "Amount", "Category", "Budget", "Employee", "Provider",
      "Payment", "Kind", "Comment", "Stock", "Period", "Bank">>

\* a header naming every column the default flags configure
DefaultFlagHeader ==
    <<<<"d", "a", "t", "e">>, <<"n", "a", "m", "e">>, <<"a", "m", "o", "u", "n", "t">>, <<"c", "a", "t", "e", "g", "o", "r", "y">>, <<"b", "u", "d", "g", "e", "t">>, <<"e", "m", "p", "l", "o", "y", "e", "e">>, <<"p", "r", "o", "v", "i", "d", "e", "r">>,
      <<"p", "a", "y", "m", "e", "n", "t">>, <<"c", "o", "m", "m", "e", "n", "t">>, <<"p", "e", "r", "i", "o", "d">>, <<"a", "c", "c", "o", "u", "n", "t">>>>

DefaultFlagHeaderFields ==
    <<"Date", "Name", "Amount", "Category", "Budget", "Employee", "Provider",
      "Payment", "Comment", "Period", "Bank">>

\* the values a cell of each field takes in the rows given to the converter
CellPool(field) ==
    CASE field = "Date" -> {<<"0", "1", "/", "0", "1", "/", "2", "0", "2", "5">>, <<"2", "0", "2", "5", "-", "0", "1", "-", "0", "1">>}
      [] field = "Name" -> {<<"T", "x">>}
      [] field = "Amount" -> {<<"1", "0">>, <<"1", "o">>}
      [] field = "Category" -> {<<"R", "e", "n", "t">>, <<"G", "i", "f", "t", "s">>, <<"C", "h", "e", "c", "k">>}
      [] field = "Budget" -> {<<"F", "O", "N">>, <<"A", "S", "C">>, <<"a", "e", "p">>, <<"I", "N", "V", "A", "L", "I", "D">>, EmptyStr}
      [] field = "Employee" -> {EmptyStr, <<"m", "é", " ", "p", "é">>, <<"m", "e", " ", "p", "e">>}
      [] field = "Provider" -> {EmptyStr, <<"t", "e", "c", "h", "c", "o", "r", "p">>}
      [] field = "Payment" -> {<<"C", "a", "r", "d">>, <<"b", "o", "g", "u", "s">>}
      [] field = "Kind" -> {<<"r", "e", "c", "e", "t", "t", "e", "s">>, <<"R", "e", "c", "e", "t", "t", "e", "s">>}
      [] field = "Comment" -> {<<"o", "k", " ">>}
      [] field = "Stock" -> {EmptyStr, <<"5">>, <<"f", "i", "v", "e">>}
      [] field = "Period" -> {EmptyStr, <<"0", "1", "/", "0", "1", "/", "2", "0", "2", "4", "-", "3", "1", "/", "1", "2", "/", "2", "0", "2", "4">>}
      [] field = "Bank" -> {EmptyStr, <<"b">>, <<"C">>}

\* the rows holding, in each column, a value of the pool of the column's field
RECURSIVE RowsOver(_)
RowsOver(fields) ==
    IF fields = <<>> THEN {<<>>}
    ELSE {Append(r, c) :
            r \in RowsOver(SubSeq(fields, 1, Len(fields) - 1)),
            c \in CellPool(fields[Len(fields)])}

\* the file layouts: the header, the configured column names, the field of each
\* column and the defaults of the run
Layouts ==
    {[header |-> MinimalHeader, fields |-> MinimalHeaderFields,
      columns |-> MinimalColumns, defaults |-> NoDefaults],
     [header |-> MinimalHeader, fields |-> MinimalHeaderFields,
      columns |-> MinimalColumns, defaults |-> BaseDefaults],
     [header |-> DefaultFlagHeader, fields |-> DefaultFlagHeaderFields,
      columns |-> DefaultFlagColumns, defaults |-> BaseDefaults]}

\* the arguments of one conversion: a layout, a row and the reference lists
RowCall(l, r) ==
    [header |-> l.header, fields |-> l.fields, columns |-> l.columns,
     defaults |-> l.defaults, row |-> r, rowIndex |-> 1,
     accounts |-> RowAccounts, categories |-> RowCategories,
     employees |-> RowEmployees, providers |-> RowProviders,
     periods |-> RowPeriods]

\* what parseCSV does with one row (csv.go:75-96)
ConvertOne(a, header, row) ==
    createEntryFromRow(row, buildColumnMap(header, a.columns), a.defaults, a.rowIndex,
                       a.accounts, createCategoriesMap(a.categories),
                       createEmployeesMap(a.employees), createProvidersMap(a.providers),
                       createPeriodsMap(a.periods))

InitRow ==
    /\ pc = "call"
    /\ \E l \in Layouts : \E r \in RowsOver(l.fields) : args = RowCall(l, r)
    /\ ret = Idle
    /\ ParserIdle

ConvertRow ==
    /\ pc = "call"
    /\ ret' = ConvertOne(args, args.header, args.row)
    /\ pc' = "done"
    /\ UNCHANGED <<args, parserVars>>

NextRow == ConvertRow

SpecRow == InitRow /\ [][NextRow]_vars

----------------------------------------------------------------------------
(* Claims on the row-to-entry converter, checked under SpecRow *)

\* the trimmed cell of the row under the column configured for the field, empty
\* when the field has no column
CellNamed(a, field) ==
    LET name == a.columns[field]
        hits == {i \in DOMAIN a.header : a.header[i] = name}
    IN IF name # EmptyStr /\ hits # {}
       THEN TrimSpace(a.row[CHOOSE i \in hits : \A j \in hits : j <= i])
       ELSE EmptyStr

OrDefault(value, default) == IF value = EmptyStr THEN default ELSE value

\* the messages an error carries: its own and those of the errors it wraps
RECURSIVE MessagesOf(_)
MessagesOf(e) ==
    IF e = NoError THEN {}
    ELSE {e.kind} \cup UNION {MessagesOf(e.wraps[i]) : i \in DOMAIN e.wraps}

\* the rules a row violates, among those that depend on no other field
ViolatedRules(a) ==
    LET dateStr == CellNamed(a, "Date")
        budgetStr == OrDefault(CellNamed(a, "Budget"), a.defaults.Budget)
    IN  (IF dateStr # EmptyStr /\ ~ParseDate(dateStr).ok
         THEN {"failed to parse date"} ELSE {})
        \cup
        (IF CellNamed(a, "Employee") # EmptyStr /\ CellNamed(a, "Provider") # EmptyStr
         THEN {"row has both employee and provider specified"} ELSE {})
        \cup
        (IF ToUpper(budgetStr) \notin {<<"F", "O", "N">>, <<"A", "S", "C">>, <<"A", "E", "P">>}
         THEN {"invalid budget"} ELSE {})

\* C1: the error returned for a row carries the message of every rule the row
\* violates, not only of the first one.
C1_EveryViolationReported ==
    pc = "done" => ViolatedRules(args) \subseteq MessagesOf(ret.err)

\* C6: a row with both an employee and a provider cell fails with the error naming
\* both values, whatever its other cells hold.
C6_BothPartiesNamed ==
    LET employeeStr == CellNamed(args, "Employee")
        providerStr == CellNamed(args, "Provider")
    IN (pc = "done" /\ employeeStr # EmptyStr /\ providerStr # EmptyStr) =>
        \E m \in {ret.err} \cup {ret.err.wraps[i] : i \in DOMAIN ret.err.wraps} :
            /\ m.kind = "row has both employee and provider specified"
            /\ Contains(m.args, employeeStr)
            /\ Contains(m.args, providerStr)

\* a letter without its diacritical mark
StripMark(c) ==
    CASE c = "é" -> "e"
      [] c = "É" -> "E"
      [] OTHER -> c

\* lower-cased and without diacritical marks
FoldName(s) == [i \in DOMAIN s |-> StripMark(LowerChar(s[i]))]

\* C9: an employee cell equal to a listed employee's "Lastname Firstname" after
\* lower-casing and removal of the diacritical marks resolves to that employee.
C9_DiacriticsInsensitive ==
    LET employeeStr == CellNamed(args, "Employee") IN
    pc = "done" =>
        \A i \in DOMAIN args.employees :
            LET e == args.employees[i] IN
            (/\ employeeStr # EmptyStr
             /\ FoldName(employeeStr) = FoldName(e.Lastname \o <<" ">> \o e.Firstname))
            => /\ "unknown employee" \notin MessagesOf(ret.err)
               /\ ret.err = NoError => ret.entry.Party = [type |-> "Employee", ID |-> e.ID]

\* every configured column is in the header
AllColumnsPresent(a) ==
    \A f \in FieldSet :
        a.columns[f] # EmptyStr => \E i \in DOMAIN a.header : a.header[i] = a.columns[f]

KindNames == {<<"d", "e", "p", "e", "n", "s", "e", "s">>, <<"r", "e", "c", "e", "t", "t", "e", "s">>, <<"a", "t", "t", "r", "i", "b", "u", "t", "i", "o", "n", "s">>}

PaymentNames ==
    {<<"c", "h", "e", "c", "k", " ", "r", "e", "c", "e", "i", "v", "e", "d">>, <<"c", "a", "s", "h">>, <<"c", "a", "r", "d">>, <<"t", "r", "a", "n", "s", "f", "e", "r">>, <<"d", "i", "r", "e", "c", "t", " ", "d", "e", "b", "i", "t">>, <<"c", "h", "e", "c", "k", " ", "e", "m", "i", "t", "t", "e", "d">>,
     <<"c", "h", "e", "c", "k", " ", "a", "l", "l", "o", "c", "a", "t", "i", "o", "n">>}

\* the budget a budget string names
BudgetNamed(str) == IF ToUpper(str) = <<"A", "S", "C">> THEN BudgetASC ELSE BudgetFON

\* every cell of the row holds a value valid for its field: a date, an amount, a
\* known kind, budget and payment method, a category of that budget with its stock
\* when it requires one, at most one party and a known one, a known period and a
\* bank with one account for the budget
ValidCells(a) ==
    LET budgetStr == CellNamed(a, "Budget")
        budget == BudgetNamed(budgetStr)
        categoryName == CellNamed(a, "Category")
        employeeStr == CellNamed(a, "Employee")
        providerStr == CellNamed(a, "Provider")
        periodStr == CellNamed(a, "Period")
        bank == CellNamed(a, "Bank")
    IN  /\ ParseDate(CellNamed(a, "Date")).ok
        /\ parseAmount(CellNamed(a, "Amount")).err = NoError
        /\ OrDefault(CellNamed(a, "Kind"), a.defaults.Kind) \in KindNames
        /\ ToUpper(budgetStr) \in {<<"F", "O", "N">>, <<"A", "S", "C">>, <<"A", "E", "P">>}
        /\ ToLower(CellNamed(a, "Payment")) \in PaymentNames
        /\ \E i \in DOMAIN a.categories :
            /\ a.categories[i].Name = categoryName
            /\ a.categories[i].Budget = budget
            /\ a.categories[i].Stock => Atoi(CellNamed(a, "Stock")).ok
        /\ employeeStr = EmptyStr \/ providerStr = EmptyStr
        /\ employeeStr # EmptyStr =>
            \E i \in DOMAIN a.employees :
                ToLower(a.employees[i].Lastname \o <<" ">> \o a.employees[i].Firstname)
                    = ToLower(employeeStr)
        /\ providerStr # EmptyStr =>
            \E i \in DOMAIN a.providers : ToLower(a.providers[i].Name) = ToLower(providerStr)
        /\ \E i \in DOMAIN a.periods :
            periodStr = FormatDate(a.periods[i].Start) \o <<"-">>
                            \o FormatDate(a.periods[i].End)
        /\ bank # EmptyStr
        /\ \/ Cardinality({i \in DOMAIN a.accounts :
                            /\ EqualFold(a.accounts[i].Bank, bank)
                            /\ a.accounts[i].Budget = budget}) = 1
           \/ /\ \A i \in DOMAIN a.accounts :
                    EqualFold(a.accounts[i].Bank, bank) => a.accounts[i].Budget # budget
              /\ Cardinality({i \in DOMAIN a.accounts :
                                /\ EqualFold(a.accounts[i].Bank, bank)
                                /\ a.accounts[i].Budget = BudgetUndefined}) = 1

\* C10: a row whose configured columns are all present and whose cells are all
\* valid gives a populated entry and no error.
C10_ValidRowConverts ==
    (pc = "done" /\ AllColumnsPresent(args) /\ ValidCells(args)) =>
        /\ ret.err = NoError
        /\ ~ret.panic
        /\ Len(ret.entry.Allocation) = 1
        /\ ret.entry.Account # ZeroAccount

----------------------------------------------------------------------------
(* Permuted columns: inputs and specification *)

PermuteHeaderPool == {<<"D", "A", "T", "E">>, <<"A", "M", "O", "U", "N", "T">>, <<"N", "A", "M", "E">>}

PermuteCellPool == {<<"0", "1", "/", "0", "1", "/", "2", "0", "2", "5">>, <<"1", "0">>}

\* the permutations of 1..n
PermutationsOf(n) == {f \in [1..n -> 1..n] : \A i, j \in 1..n : f[i] = f[j] => i = j}

\* the sequence with its cells in the order the permutation gives
Permute(seq, perm) == [i \in DOMAIN seq |-> seq[perm[i]]]

InitPermute ==
    /\ pc = "call"
    /\ \E n \in 0..MaxHeader :
        \E h \in [1..n -> PermuteHeaderPool] :
            \E r \in [1..n -> PermuteCellPool] :
                \E perm \in PermutationsOf(n) :
                    args = [header |-> h, row |-> r, perm |-> perm,
                            columns |-> MinimalColumns, defaults |-> BaseDefaults,
                            rowIndex |-> 1, accounts |-> RowAccounts,
                            categories |-> RowCategories, employees |-> RowEmployees,
                            providers |-> RowProviders, periods |-> RowPeriods]
    /\ ret = Idle
    /\ ParserIdle

\* the row converted under its header, and again with the columns permuted
ConvertPermuted ==
    /\ pc = "call"
    /\ ret' = [original |-> ConvertOne(args, args.header, args.row),
               permuted |-> ConvertOne(args, Permute(args.header, args.perm),
                                       Permute(args.row, args.perm))]
    /\ pc' = "done"
    /\ UNCHANGED <<args, parserVars>>

NextPermute == ConvertPermuted

SpecPermute == InitPermute /\ [][NextPermute]_vars

\* no two columns of the header hold the same text
DistinctHeader(header) ==
    \A i, j \in DOMAIN header : header[i] = header[j] => i = j

\* C8 as stated: permuting the header columns and the cells of the row the same
\* way gives the same entry or the same error.
C8_OrderIndependent ==
    pc = "done" => ret.original = ret.permuted

\* C8 amended: permuting the columns of a header whose cells are pairwise distinct,
\* and the cells of the row the same way, gives the same entry or the same error.
C8_OrderIndependentDistinct ==
    (pc = "done" /\ DistinctHeader(args.header)) => ret.original = ret.permuted

C8_Witness ==
    /\ pc = "done"
    /\ DistinctHeader(args.header)
    /\ Len(args.header) = 3
    /\ \E i \in DOMAIN args.perm : args.perm[i] # i
    /\ ret.original.err = NoError
    /\ ret.permuted = ret.original

----------------------------------------------------------------------------
(* Batch driver *)

MaxRows == 3

\* a record csv.Reader.Read returns, or the error it returns for a malformed line
Record(cells) == [ok |-> TRUE, cells |-> cells]

Malformed == [ok |-> FALSE, cells |-> <<>>]

FileRowPool ==
    {Record(<<<<"0", "1", "/", "0", "1", "/", "2", "0", "2", "5">>, <<"T", "x">>, <<"1", "0", "0", ".", "5", "0">>, <<"R", "e", "n", "t">>, <<"F", "O", "N">>, EmptyStr, <<"T", "e", "c", "h", "C", "o", "r", "p">>,
              <<"c", "a", "r", "d">>, <<"d", "e", "p", "e", "n", "s", "e", "s">>, EmptyStr, EmptyStr, EmptyStr, <<"B">>>>),
     Record(<<<<"0", "2", "/", "0", "1", "/", "2", "0", "2", "5">>, <<"T", "x">>, <<"2", "0">>, <<"C", "h", "e", "c", "k">>, <<"A", "S", "C">>, <<"D", "o", "e", " ", "J", "o">>, EmptyStr,
              <<"c", "a", "s", "h">>, <<"d", "e", "p", "e", "n", "s", "e", "s">>, EmptyStr, <<"2">>, EmptyStr, <<"C">>>>),
     Record(<<<<"I", "N", "V", "A", "L", "I", "D">>, <<"T", "x">>, EmptyStr, EmptyStr, EmptyStr, EmptyStr, EmptyStr,
              EmptyStr, EmptyStr, EmptyStr, EmptyStr, EmptyStr, EmptyStr>>),
     Record(<<<<"0", "3", "/", "0", "1", "/", "2", "0", "2", "5">>, <<"T", "x">>, <<"1", " ", "2", "3", "4", ",", "5", "6", " ", "€">>, <<"G", "i", "f", "t", "s">>, <<"A", "S", "C">>, <<"D", "o", "e", " ", "J", "o">>, <<"T", "e", "c", "h", "C", "o", "r", "p">>,
              <<"c", "a", "r", "d">>, <<"r", "e", "c", "e", "t", "t", "e", "s">>, EmptyStr, EmptyStr, EmptyStr, <<"C">>>>),
     Malformed}

\* the files: nothing at all, or a header line followed by rows
Files ==
    {<<>>} \cup
    {<<h>> \o rows : h \in {Record(MinimalHeader), Malformed},
                     rows \in SeqsUpTo(FileRowPool, MaxRows)}

Init ==
    /\ pc = "header"
    /\ \E f \in Files : \E d \in {NoDefaults, BaseDefaults} :
        /\ reader = f
        /\ args = [file |-> f, columns |-> MinimalColumns, defaults |-> d,
                   accounts |-> RowAccounts, categories |-> RowCategories,
                   employees |-> RowEmployees, providers |-> RowProviders,
                   periods |-> RowPeriods]
    /\ ret = Idle
    /\ rowIndex = 0
    /\ colMap = Idle
    /\ maps = Idle
    /\ entries = <<>>
    /\ err = NoError
    /\ file = "none"
    /\ deferred = <<>>
    /\ submitted = <<>>
    /\ goroutine = Idle
    /\ pipe = Idle
    /\ client = Idle

\* the error of a file without a header line (csv.go:67-69), or no error at all
EmptyFileNoError == NoError

EmptyFileError == Errorf("CSV file is empty", <<>>)

\* entries = append(entries, entry) (csv.go:101), or the entry put in front
PrependEntry(list, entry) == <<entry>> \o list

AppendEntry(list, entry) == Append(list, entry)

\* csv.go:66-82: the header is read, the column map and the lookup maps are built
ReadHeader ==
    /\ pc = "header"
    /\ IF reader = <<>>
       THEN /\ err' = EmptyFileError
            /\ pc' = "done"
            /\ UNCHANGED <<reader, rowIndex, colMap, maps>>
       ELSE IF ~Head(reader).ok
       THEN /\ err' = Wrapf("failed to read CSV header", <<>>,
                            Errorf("csv.ParseError", <<>>))
            /\ pc' = "done"
            /\ reader' = Tail(reader)
            /\ UNCHANGED <<rowIndex, colMap, maps>>
       ELSE /\ colMap' = buildColumnMap(Head(reader).cells, args.columns)
            /\ maps' = [categories |-> createCategoriesMap(args.categories),
                        employees |-> createEmployeesMap(args.employees),
                        providers |-> createProvidersMap(args.providers),
                        periods |-> createPeriodsMap(args.periods)]
            /\ rowIndex' = 1
            /\ reader' = Tail(reader)
            /\ pc' = "rows"
            /\ err' = err
    /\ UNCHANGED <<args, ret, entries, file, deferred, submitted, goroutine, pipe, client>>

\* csv.go:85-102: one turn of the loop on a row of the file
ReadRow ==
    /\ pc = "rows"
    /\ reader # <<>>
    /\ reader' = Tail(reader)
    /\ IF ~Head(reader).ok
       THEN /\ err' = Wrapf("failed to read row", <<FormatInt(rowIndex)>>,
                            Errorf("csv.ParseError", <<>>))
            /\ entries' = <<>>
            /\ pc' = "done"
            /\ UNCHANGED <<rowIndex, ret>>
       ELSE /\ ret' = createEntryFromRow(Head(reader).cells, colMap, args.defaults,
                                         rowIndex, args.accounts, maps.categories,
                                         maps.employees, maps.providers, maps.periods)
            /\ IF ret'.panic
               THEN /\ pc' = "panic"
                    /\ UNCHANGED <<rowIndex, entries, err>>
               ELSE IF ret'.err # NoError
               THEN /\ err' = Wrapf("failed to process entry on row",
                                    <<FormatInt(rowIndex)>>, ret'.err)
                    /\ entries' = <<>>
                    /\ pc' = "done"
                    /\ UNCHANGED rowIndex
               ELSE /\ entries' = AppendEntry(entries, ret'.entry)
                    /\ rowIndex' = rowIndex + 1
                    /\ UNCHANGED <<pc, err>>
    /\ UNCHANGED <<args, colMap, maps, file, deferred, submitted, goroutine, pipe, client>>

\* csv.go:87-89 and 104: io.EOF ends the loop and parseCSV returns
EndOfFile ==
    /\ pc = "rows"
    /\ reader = <<>>
    /\ pc' = "done"
    /\ UNCHANGED <<args, ret, reader, rowIndex, colMap, maps, entries, err, file, deferred, submitted, goroutine, pipe, client>>

Next == ReadHeader \/ ReadRow \/ EndOfFile

Spec == Init /\ [][Next]_vars

\* the rows of the file, numbered from 1 after the header, that cannot be read or
\* cannot be converted
FailingRows(a) ==
    {i \in 1..(Len(a.file) - 1) :
        \/ ~a.file[i + 1].ok
        \/ LET r == createEntryFromRow(
                        a.file[i + 1].cells, buildColumnMap(a.file[1].cells, a.columns),
                        a.defaults, i, a.accounts, createCategoriesMap(a.categories),
                        createEmployeesMap(a.employees), createProvidersMap(a.providers),
                        createPeriodsMap(a.periods))
           IN r.err # NoError}

\* the row numbers the messages of an error name
RECURSIVE RowsReported(_)
RowsReported(e) ==
    (IF e.kind \in {"failed to read row", "failed to process entry on row"}
     THEN {e.args[1]} ELSE {})
    \cup UNION {RowsReported(e.wraps[i]) : i \in DOMAIN e.wraps}

\* C2: once the header is read no bad row stops parseCSV: every row is read, and
\* the error returned at the end names every failing row.
C2_EveryFailingRowReported ==
    (pc = "done" /\ args.file # <<>> /\ args.file[1].ok) =>
        /\ reader = <<>>
        /\ \A i \in FailingRows(args) : FormatInt(i) \in RowsReported(err)

\* the entry createEntryFromRow builds from the i-th data row of the file
EntryOfRow(a, i) ==
    createEntryFromRow(a.file[i + 1].cells, buildColumnMap(a.file[1].cells, a.columns),
                       a.defaults, i, a.accounts, createCategoriesMap(a.categories),
                       createEmployeesMap(a.employees), createProvidersMap(a.providers),
                       createPeriodsMap(a.periods)).entry

\* C11: when every data row converts, parseCSV returns without error one entry per
\* data row, the i-th entry being the one built from the i-th row after the header.
C11_EntriesInFileOrder ==
    (/\ pc = "done"
     /\ args.file # <<>>
     /\ args.file[1].ok
     /\ FailingRows(args) = {}) =>
        /\ err = NoError
        /\ Len(entries) = Len(args.file) - 1
        /\ \A i \in 1..Len(entries) : entries[i] = EntryOfRow(args, i)

C11_Witness ==
    /\ pc = "done"
    /\ Len(args.file) = MaxRows + 1
    /\ args.file[1].ok
    /\ FailingRows(args) = {}
    /\ Len(entries) = MaxRows
    /\ entries[1] # entries[2]
    /\ entries[1] = EntryOfRow(args, 1)

\* C12: on an empty input parseCSV fails with the empty-file error, returns no
\* entry, builds no column map and no index, and converts no row.
C12_EmptyFile ==
    (pc = "done" /\ args.file = <<>>) =>
        /\ err = Errorf("CSV file is empty", <<>>)
        /\ entries = <<>>
        /\ colMap = Idle
        /\ maps = Idle
        /\ ret = Idle
        /\ rowIndex = 0

C12_Witness ==
    /\ pc = "done"
    /\ args.file = <<>>
    /\ err.kind = "CSV file is empty"
    /\ entries = <<>>

----------------------------------------------------------------------------
(* Amount parser: inputs and specification *)

MaxAmountLen == 5

AmountChars == {"1", ",", ".", " ", NBSP, Euro}

\* the inputs of TestParseAmount (currency_test.go:13-69), with the symbol in front
AmountExamples ==
    {<<"1", "2", "3", "4", ".", "5", "6">>, <<"1", ",", "2", "3", "4", ".", "5", "6">>, <<"1", "2", "3", "4", ",", "5", "6">>, <<"1", " ", "2", "3", "4", ",", "5", "6", " ", Euro>>, <<"1", NBSP, "2", "3", "4", ",", "5", "6">>, <<"1", NBSP, "2", "3", "4", ",", "5", "6", " ", Euro>>,
     <<"1", "0", "0", "0">>, <<"1", "0", "0", ".", "5", "0", "a", "b", "c">>, <<Euro, " ", "1", ",", "2", "3", "4", ".", "5", "6">>, <<"1", ".", "2", "3", "4", ",", "5", "6">>, <<"-", "1", "2", ",", "5">>}

InitAmount ==
    /\ pc = "call"
    /\ \E input \in SeqsUpTo(AmountChars, MaxAmountLen) \cup AmountExamples :
        args = [input |-> input]
    /\ ret = Idle
    /\ ParserIdle

CallParseAmount ==
    /\ pc = "call"
    /\ ret' = parseAmount(args.input)
    /\ pc' = "done"
    /\ UNCHANGED <<args, parserVars>>

NextAmount == CallParseAmount

SpecAmount == InitAmount /\ [][NextAmount]_vars

\* the US rule: euro symbol and commas dropped, surrounding white space trimmed
CleanedUS(input) == TrimSpace(SelectSeq(input, LAMBDA c : c \notin {Euro, ","}))

\* the European rule: euro symbol, dots, ordinary and non-breaking spaces dropped,
\* then each comma turned into a dot
CleanedEuropean(input) ==
    LET kept == SelectSeq(input, LAMBDA c : c \notin {Euro, ".", " ", NBSP})
    IN [i \in DOMAIN kept |-> IF kept[i] = "," THEN "." ELSE kept[i]]

Cleaned(input) ==
    IF MatchesUS(input) THEN CleanedUS(input) ELSE CleanedEuropean(input)

\* C13: parseAmount follows the two-branch rule on every non-empty input: the value
\* is the one parsed from the input cleaned by the US rule when the input matches
\* the US pattern, by the European rule otherwise; so "1,234.56", "1234.56",
\* "1234,56" and "1 234,56 €" (with either space) all give 1234.56, and "1000"
\* gives 1000.
C13_TwoBranchRule ==
    (pc = "done" /\ args.input # EmptyStr) =>
        /\ ParseFloat(Cleaned(args.input)).ok =>
               /\ ret.err = NoError
               /\ ret.value = ParseFloat(Cleaned(args.input)).value
        /\ args.input \in {<<"1", ",", "2", "3", "4", ".", "5", "6">>, <<"1", "2", "3", "4", ".", "5", "6">>, <<"1", "2", "3", "4", ",", "5", "6">>, <<"1", " ", "2", "3", "4", ",", "5", "6", " ", Euro>>, <<"1", NBSP, "2", "3", "4", ",", "5", "6", " ", Euro>>,
                           <<"1", NBSP, "2", "3", "4", ",", "5", "6">>} =>
               ret = [value |-> [mant |-> 123456, scale |-> 2], err |-> NoError]
        /\ args.input = <<"1", "0", "0", "0">> =>
               ret = [value |-> [mant |-> 1000, scale |-> 0], err |-> NoError]

C13_Witness ==
    /\ pc = "done"
    /\ args.input = <<"1", " ", "2", "3", "4", ",", "5", "6", " ", Euro>>
    /\ ~MatchesUS(args.input)
    /\ MatchesUS(<<"1", ",", "2", "3", "4", ".", "5", "6">>)
    /\ ret.err = NoError
    /\ ret.value = [mant |-> 123456, scale |-> 2]

\* C14: parseAmount fails on the empty string with the empty-amount error and on
\* every input whose cleaned form is no number, "100.50abc" among them, with an
\* error holding the input and the cleaned string; the value of a failure is 0.
C14_ParseFailures ==
    pc = "done" =>
        /\ args.input = EmptyStr =>
               ret = [value |-> ZeroAmount,
                      err |-> Errorf("amount is missing or empty", <<>>)]
        /\ (args.input # EmptyStr /\ ~ParseFloat(Cleaned(args.input)).ok) =>
               /\ ret.err.kind = "failed to parse amount"
               /\ ret.err.args = <<args.input, Cleaned(args.input)>>
        /\ args.input = <<"1", "0", "0", ".", "5", "0", "a", "b", "c">> =>
               /\ ret.err.kind = "failed to parse amount"
               /\ ret.err.args = <<<<"1", "0", "0", ".", "5", "0", "a", "b", "c">>, <<"1", "0", "0", "5", "0", "a", "b", "c">>>>
        /\ ret.err # NoError => ret.value = ZeroAmount

C14_Witness ==
    /\ pc = "done"
    /\ args.input = <<"1", "0", "0", ".", "5", "0", "a", "b", "c">>
    /\ ret.err.kind = "failed to parse amount"
    /\ ret.err.args = <<<<"1", "0", "0", ".", "5", "0", "a", "b", "c">>, <<"1", "0", "0", "5", "0", "a", "b", "c">>>>
    /\ ret.value = ZeroAmount

\* the budget string of the row: the budget cell, or the default when it is blank
RowBudgetStr(a) == OrDefault(CellNamed(a, "Budget"), a.defaults.Budget)

ValidBudgetStr(str) ==
    ToUpper(str) \in {<<"F", "O", "N">>, <<"A", "S", "C">>, <<"A", "E", "P">>}

\* the category name of the row: the category cell, or the default when it is blank
RowCategoryName(a) == OrDefault(CellNamed(a, "Category"), a.defaults.Category)

\* the listed categories with the name of the row under the budget of the row
RowCategoryHits(a) ==
    {i \in DOMAIN a.categories :
        /\ a.categories[i].Name = RowCategoryName(a)
        /\ a.categories[i].Budget = BudgetNamed(RowBudgetStr(a))}

\* the category the index holds for the row: the last listed one
RowCategory(a) ==
    a.categories[CHOOSE i \in RowCategoryHits(a) : \A j \in RowCategoryHits(a) : j <= i]

CategoryMessages == {"invalid category name / budget combination"}

AccountMessages ==
    {"more than one bank found", "more than one account found for the budget at bank",
     "more than one account found for the both budgets at bank",
     "no account found matching the budget at bank"}

StockMessages ==
    {"no stock defined but category needs it", "failed to parse stock as an integer"}

\* C15: the budget is the budget cell or, when blank, the default; FON and ASC are
\* accepted and AEP is read as FON; any other value, or none, fails the row with the
\* invalid-budget error, and no category or account error is reported for that row.
C15_BudgetHandling ==
    pc = "done" =>
        IF ValidBudgetStr(RowBudgetStr(args))
        THEN /\ "invalid budget" \notin MessagesOf(ret.err)
             /\ ret.err = NoError => ret.entry.Budget = BudgetNamed(RowBudgetStr(args))
        ELSE /\ "invalid budget" \in MessagesOf(ret.err)
             /\ MessagesOf(ret.err) \cap (CategoryMessages \cup AccountMessages) = {}

\* C16: the category is looked up under the validated budget of the row and the
\* category name (cell, or default when blank): a name listed under that budget
\* gives its category, AEP finding the FON ones, and a name not listed under it
\* fails the row with the error naming the category and the budget.
C16_CategoryPerBudget ==
    (pc = "done" /\ ValidBudgetStr(RowBudgetStr(args))) =>
        IF RowCategoryHits(args) = {}
        THEN \E m \in {ret.err} \cup {ret.err.wraps[i] : i \in DOMAIN ret.err.wraps} :
                /\ m.kind = "invalid category name / budget combination"
                /\ Contains(m.args, RowCategoryName(args))
                /\ Contains(m.args, BudgetString(BudgetNamed(RowBudgetStr(args))))
        ELSE /\ MessagesOf(ret.err) \cap CategoryMessages = {}
             /\ ret.err = NoError =>
                    ret.entry.Allocation[1].CategoryID = RowCategory(args).ID

\* C17: when the category resolved for the row requires stock, a blank stock cell
\* fails the row with the stock-required error and a non-integer one with the
\* stock-parse error; when it requires none, the row never fails because of the
\* stock cell and the stock of the entry is 0.
C17_StockOnlyWhenRequired ==
    (/\ pc = "done"
     /\ ValidBudgetStr(RowBudgetStr(args))
     /\ RowCategoryHits(args) # {}) =>
        IF RowCategory(args).Stock
        THEN /\ CellNamed(args, "Stock") = EmptyStr =>
                    "no stock defined but category needs it" \in MessagesOf(ret.err)
             /\ (CellNamed(args, "Stock") # EmptyStr /\ ~Atoi(CellNamed(args, "Stock")).ok) =>
                    "failed to parse stock as an integer" \in MessagesOf(ret.err)
        ELSE /\ MessagesOf(ret.err) \cap StockMessages = {}
             /\ ret.err = NoError => ret.entry.Allocation[1].Stock = 0

\* C19: an entry returned without error has exactly one allocation line: the id of
\* the category resolved for the row, the parsed amount cell, and the parsed stock
\* cell when the category requires stock, 0 otherwise.
C19_OneAllocationLine ==
    (pc = "done" /\ ret.err = NoError /\ ~ret.panic) =>
        /\ RowCategoryHits(args) # {}
        /\ Len(ret.entry.Allocation) = 1
        /\ ret.entry.Allocation[1] =
              [CategoryID |-> RowCategory(args).ID,
               Amount |-> ParseFloat(Cleaned(CellNamed(args, "Amount"))).value,
               Stock |-> IF RowCategory(args).Stock
                         THEN DecimalVal(CellNamed(args, "Stock")) ELSE 0]

C19_Witness ==
    /\ pc = "done"
    /\ ret.err = NoError
    /\ RowCategoryHits(args) # {}
    /\ RowCategory(args).Stock
    /\ ret.entry.Allocation =
          <<[CategoryID |-> 201, Amount |-> [mant |-> 10, scale |-> 0], Stock |-> 5]>>

----------------------------------------------------------------------------
(* Period resolution: inputs and specification *)

MaxPeriods == 3

\* periods as ListPeriods returns them: two current ones, and two closed ones
\* with the same dates
PeriodPool ==
    {[ID |-> <<"1">>, Status |-> PeriodStatusCurrent,
      Start |-> [day |-> 1, month |-> 1, year |-> 2025],
      End |-> [day |-> 31, month |-> 12, year |-> 2025]],
     [ID |-> <<"2">>, Status |-> PeriodStatusCurrent,
      Start |-> [day |-> 1, month |-> 1, year |-> 2026],
      End |-> [day |-> 31, month |-> 12, year |-> 2026]],
     [ID |-> <<"3">>, Status |-> PeriodStatusDefinitelyClosed,
      Start |-> [day |-> 1, month |-> 1, year |-> 2024],
      End |-> [day |-> 31, month |-> 12, year |-> 2024]],
     [ID |-> <<"4">>, Status |-> PeriodStatusProvisionallyClosed,
      Start |-> [day |-> 1, month |-> 1, year |-> 2024],
      End |-> [day |-> 31, month |-> 12, year |-> 2024]]}

PeriodCellPool ==
    {EmptyStr, <<"0", "1", "/", "0", "1", "/", "2", "0", "2", "4", "-", "3", "1", "/", "1", "2", "/", "2", "0", "2", "4">>, <<"0", "1", "/", "0", "1", "/", "2", "0", "2", "5", "-", "3", "1", "/", "1", "2", "/", "2", "0", "2", "5">>, <<"0", "1", "/", "0", "1", "/", "2", "0", "2", "3", "-", "3", "1", "/", "1", "2", "/", "2", "0", "2", "3">>}

DefaultPeriodPool == {EmptyStr, <<"0", "1", "/", "0", "1", "/", "2", "0", "2", "4", "-", "3", "1", "/", "1", "2", "/", "2", "0", "2", "4">>, <<"2", "0", "2", "3">>}

\* a row of the minimal header, valid but for its date and period cells
PeriodRow(date, period) ==
    <<date, <<"T", "x">>, <<"1", "0">>, <<"R", "e", "n", "t">>, <<"F", "O", "N">>, EmptyStr, <<"t", "e", "c", "h", "c", "o", "r", "p">>, <<"C", "a", "r", "d">>, <<"r", "e", "c", "e", "t", "t", "e", "s">>,
      <<"o", "k">>, EmptyStr, period, <<"b">>>>

InitPeriod ==
    /\ pc = "call"
    /\ \E list \in SeqsUpTo(PeriodPool, MaxPeriods) \ {<<>>} :
        \E cell \in PeriodCellPool :
            \E default \in DefaultPeriodPool :
                \E date \in CellPool("Date") :
                    args = [header |-> MinimalHeader, fields |-> MinimalHeaderFields,
                            columns |-> MinimalColumns,
                            defaults |-> [BaseDefaults EXCEPT !.Period = default],
                            row |-> PeriodRow(date, cell), rowIndex |-> 1,
                            accounts |-> RowAccounts, categories |-> RowCategories,
                            employees |-> RowEmployees, providers |-> RowProviders,
                            periods |-> list]
    /\ ret = Idle
    /\ ParserIdle

ConvertPeriodRow ==
    /\ pc = "call"
    /\ ret' = ConvertOne(args, args.header, args.row)
    /\ pc' = "done"
    /\ UNCHANGED <<args, parserVars>>

NextPeriod == ConvertPeriodRow

SpecPeriod == InitPeriod /\ [][NextPeriod]_vars

\* the period key of the row: the period cell, else the default, else empty
RowPeriodKey(a) == OrDefault(CellNamed(a, "Period"), a.defaults.Period)

\* the listed periods the key stands for: the current ones for the empty key, the
\* ones with the dates of the key otherwise
RowPeriodHits(a) ==
    {i \in DOMAIN a.periods :
        IF RowPeriodKey(a) = EmptyStr
        THEN a.periods[i].Status = PeriodStatusCurrent
        ELSE FormatDate(a.periods[i].Start) \o <<"-">> \o FormatDate(a.periods[i].End)
                = RowPeriodKey(a)}

\* C18: the period key is the period cell, else the default period, else the empty
\* string, which stands for the last current period of the list; a key found sets
\* the period id of the entry, and a key not found fails the row with the
\* period-not-found error.
C18_PeriodResolution ==
    pc = "done" =>
        IF RowPeriodHits(args) = {}
        THEN "couldn't find the period" \in MessagesOf(ret.err)
        ELSE /\ "couldn't find the period" \notin MessagesOf(ret.err)
             /\ ret.err = NoError =>
                    ret.entry.Period =
                        args.periods[CHOOSE i \in RowPeriodHits(args) :
                                        \A j \in RowPeriodHits(args) : j <= i].ID

----------------------------------------------------------------------------
(* loadImpl and the CSV file handle *)

\* getSingleRune: no rune for the empty string, the rune of a one-character
\* string, an error otherwise
getSingleRune(value, fieldName) ==
    IF value = EmptyStr THEN [rune |-> "NUL", err |-> NoError]
    ELSE IF Len(value) # 1
    THEN [rune |-> "NUL",
          err |-> Errorf("must be a single character", <<fieldName, value>>)]
    ELSE [rune |-> value[1], err |-> NoError]

\* f.Close() with its error dropped: an open file is closed, a nil or closed one
\* only returns an error; or a cleaner that closes nothing
LeaveOpen(f) == f

Close(f) == IF f = "open" THEN "closed" ELSE f

\* getCSVReader: the file after os.Open, the reader and the error returned
getCSVReader(exists, cfg, content) ==
    LET commaRune == getSingleRune(cfg.Comma, <<"c", "o", "m", "m", "a", " ", "s", "e", "p", "a", "r", "a", "t", "o", "r">>)
        commentRune == getSingleRune(cfg.Comment, <<"c", "o", "m", "m", "e", "n", "t", " ", "c", "h", "a", "r", "a", "c", "t", "e", "r">>)
    IN IF ~exists
       THEN [file |-> "nil", reader |-> <<>>,
             err |-> Wrapf("failed to open CSV file", <<>>, Errorf("os.PathError", <<>>))]
       ELSE IF commaRune.err # NoError
       THEN [file |-> "open", reader |-> content,
             err |-> Wrapf("CSV comma config error", <<>>, commaRune.err)]
       ELSE IF commentRune.err # NoError
       THEN [file |-> "open", reader |-> content,
             err |-> Wrapf("CSV comment config error", <<>>, commentRune.err)]
       ELSE [file |-> "open", reader |-> content, err |-> NoError]

\* the CSV files loadImpl is given
LoadFiles ==
    {<<>>, <<Malformed>>, <<Record(MinimalHeader)>>,
     <<Record(MinimalHeader), Record(PeriodRow(<<"0", "1", "/", "0", "1", "/", "2", "0", "2", "5">>, EmptyStr))>>,
     <<Record(MinimalHeader), Record(PeriodRow(<<"0", "1", "/", "0", "1", "/", "2", "0", "2", "5">>, EmptyStr)),
       Record(PeriodRow(<<"0", "2", "/", "0", "1", "/", "2", "0", "2", "5">>, EmptyStr))>>,
     <<Record(MinimalHeader), Record(PeriodRow(<<"0", "1", "/", "0", "1", "/", "2", "0", "2", "5">>, EmptyStr)),
       Record(PeriodRow(<<"I", "N", "V", "A", "L", "I", "D">>, EmptyStr))>>,
     <<Record(MinimalHeader), Record(PeriodRow(<<"0", "1", "/", "0", "1", "/", "2", "0", "2", "5">>, EmptyStr)), Malformed>>}

CSVParamPool == {EmptyStr, <<";">>, <<";", ";">>}

InitLoad ==
    /\ pc = "load"
    /\ \E clientErr, exists, receiptsErr \in BOOLEAN :
        \E accounts \in {<<>>, RowAccounts} :
            \E periods \in {<<>>, RowPeriods} :
                \E comma, comment \in CSVParamPool :
                    \E f \in LoadFiles :
                        args = [clientErr |-> clientErr, exists |-> exists,
                                receiptsErr |-> receiptsErr,
                                csv |-> [Comma |-> comma, Comment |-> comment],
                                file |-> f, columns |-> MinimalColumns,
                                defaults |-> BaseDefaults, accounts |-> accounts,
                                categories |-> RowCategories,
                                employees |-> RowEmployees,
                                providers |-> RowProviders, periods |-> periods]
    /\ ret = Idle
    /\ ParserIdle

\* load.go:18-55: log in and list the reference data
ListReferences ==
    /\ pc = "load"
    /\ IF args.clientErr
       THEN err' = Errorf("client error", <<>>) /\ pc' = "return"
       ELSE IF args.accounts = <<>>
       THEN err' = Errorf("no bank account defined in happy-compta", <<>>) /\ pc' = "return"
       ELSE IF args.periods = <<>>
       THEN err' = Errorf("no accounting period defined in happy-compta", <<>>)
            /\ pc' = "return"
       ELSE err' = err /\ pc' = "open"
    /\ UNCHANGED <<args, ret, reader, rowIndex, colMap, maps, entries, file, deferred, submitted, goroutine, pipe, client>>

\* load.go:57-61: open the file, defer the cleaner, return on an error
OpenCSV ==
    /\ pc = "open"
    /\ LET r == getCSVReader(args.exists, args.csv, args.file)
       IN /\ file' = r.file
          /\ reader' = r.reader
          /\ err' = r.err
          /\ deferred' = Append(deferred, "cleaner")
          /\ pc' = IF r.err # NoError THEN "return" ELSE "header"
    /\ UNCHANGED <<args, ret, rowIndex, colMap, maps, entries, submitted, goroutine, pipe, client>>

\* load.go:63-66: parseCSV has returned
ParseReturned ==
    /\ pc = "done"
    /\ pc' = IF err # NoError THEN "return" ELSE "receipts"
    /\ UNCHANGED <<args, ret, reader, rowIndex, colMap, maps, entries, err, file, deferred, submitted, goroutine, pipe, client>>

\* addReceipts whose error is dropped
AddReceiptsIgnoringError ==
    /\ pc = "receipts"
    /\ err' = err
    /\ pc' = "add"
    /\ UNCHANGED <<args, ret, reader, rowIndex, colMap, maps, entries, file, deferred, submitted, goroutine, pipe, client>>

\* load.go:69-71: addReceipts
AddReceipts ==
    /\ pc = "receipts"
    /\ IF args.receiptsErr
       THEN err' = Errorf("receipts error", <<>>) /\ pc' = "return"
       ELSE err' = err /\ pc' = "add"
    /\ UNCHANGED <<args, ret, reader, rowIndex, colMap, maps, entries, file, deferred, submitted, goroutine, pipe, client>>

\* load.go:74-79: one turn of the loop, client.AddEntry on the next entry; its
\* failure is logged and the loop goes on
AddEntry ==
    /\ pc = "add"
    /\ Len(submitted) < Len(entries)
    /\ \E ok \in BOOLEAN :
        submitted' = Append(submitted, [entry |-> entries[Len(submitted) + 1], ok |-> ok])
    /\ UNCHANGED <<pc, args, ret, reader, rowIndex, colMap, maps, entries, err, file, deferred, goroutine, pipe, client>>

\* load.go:81: the loop is over, nil is returned
EntriesAdded ==
    /\ pc = "add"
    /\ Len(submitted) = Len(entries)
    /\ err' = NoError
    /\ pc' = "return"
    /\ UNCHANGED <<args, ret, reader, rowIndex, colMap, maps, entries, file, deferred, submitted, goroutine, pipe, client>>

\* loadImpl returns: the deferred calls run, last deferred first
RunDeferred ==
    /\ pc = "return"
    /\ deferred # <<>>
    /\ file' = Close(file)
    /\ deferred' = SubSeq(deferred, 1, Len(deferred) - 1)
    /\ UNCHANGED <<pc, args, ret, reader, rowIndex, colMap, maps, entries, err, submitted, goroutine, pipe, client>>

Exit ==
    /\ pc = "return"
    /\ deferred = <<>>
    /\ pc' = "exit"
    /\ UNCHANGED <<args, ret, reader, rowIndex, colMap, maps, entries, err, file, deferred, submitted, goroutine, pipe, client>>

NextLoad ==
    \/ ListReferences
    \/ OpenCSV
    \/ ReadHeader
    \/ ReadRow
    \/ EndOfFile
    \/ ParseReturned
    \/ AddReceipts
    \/ AddEntry
    \/ EntriesAdded
    \/ RunDeferred
    \/ Exit

SpecLoad == InitLoad /\ [][NextLoad]_vars

\* the errors of the exit paths that follow a successful open
ErrorsAfterOpen ==
    {"CSV comma config error", "CSV comment config error", "CSV file is empty",
     "failed to read CSV header", "failed to read row", "failed to process entry on row",
     "receipts error"}

\* C20: the file opened by loadImpl stays open while the CSV is parsed and is closed
\* when loadImpl has returned, whether on a comma or comment configuration error,
\* a parse error, a receipts error or normal completion; when the open fails the
\* cleanup changes nothing, and no file is ever left open.
C20_FileClosedOnEveryExit ==
    /\ pc \in {"header", "rows", "done", "receipts", "add"} => file = "open"
    /\ pc = "exit" =>
        /\ file # "open"
        /\ deferred = <<>>
        /\ (err = NoError \/ err.kind \in ErrorsAfterOpen) => file = "closed"
        /\ err.kind = "failed to open CSV file" => file = "nil"

C20_Witness ==
    /\ pc = "exit"
    /\ file = "closed"
    /\ err.kind = "failed to process entry on row"
    /\ args.exists

----------------------------------------------------------------------------
(* Receipt files: checkAndGetFiles *)

\* maxReceiptFileSize is 2MB
maxReceiptFileSize == 2 * 1024 * 1024

\* filepath.Join of a directory and a plain name
Join(dir, name) == dir \o <<"/">> \o name

\* an os.DirEntry with what os.Stat says of it: a regular file of a given size, a
\* file that is gone by the time os.Stat runs, or a directory
RegularFile(name, size) == [name |-> name, isDir |-> FALSE, gone |-> FALSE, size |-> size]

GoneFile(name) == [name |-> name, isDir |-> FALSE, gone |-> TRUE, size |-> 0]

Directory(name) == [name |-> name, isDir |-> TRUE, gone |-> FALSE, size |-> 4096]

Unreadable == [readable |-> FALSE, items |-> <<>>]

\* the loop of checkAndGetFiles over the items of os.ReadDir; the named result
\* receipts keeps what was collected when the loop returns an error
RECURSIVE StatFiles(_, _, _)
StatFiles(dir, files, receipts) ==
    IF files = <<>> THEN [receipts |-> receipts, err |-> NoError]
    ELSE LET f == Head(files)
             filePath == Join(dir, f.name)
         IN IF f.isDir THEN StatFiles(dir, Tail(files), receipts)
            ELSE IF f.gone
            THEN [receipts |-> receipts,
                  err |-> Wrapf("failed to get file info", <<filePath>>,
                                Errorf("os.PathError", <<>>))]
            ELSE IF f.size > maxReceiptFileSize
            THEN [receipts |-> receipts,
                  err |-> Errorf("receipt file is too large", <<filePath>>)]
            ELSE StatFiles(dir, Tail(files), Append(receipts, filePath))

\* checkAndGetFiles that refuses a third file
checkAndGetFilesStrict(fs, dir) ==
    IF dir \notin DOMAIN fs \/ ~fs[dir].readable
    THEN [receipts |-> <<>>, err |-> Errorf("failed to read directory", <<dir>>)]
    ELSE LET r == StatFiles(dir, fs[dir].items, <<>>)
         IN IF r.err = NoError /\ Len(r.receipts) >= 3
            THEN [receipts |-> <<>>, err |-> Errorf("found too many receipt files", <<dir>>)]
            ELSE r

\* checkAndGetFiles that counts nothing
checkAndGetFilesUncounted(fs, dir) ==
    IF dir \notin DOMAIN fs \/ ~fs[dir].readable
    THEN [receipts |-> <<>>, err |-> Errorf("failed to read directory", <<dir>>)]
    ELSE StatFiles(dir, fs[dir].items, <<>>)

\* checkAndGetFiles: fs maps the path of each directory to what os.ReadDir gives
checkAndGetFiles(fs, dir) ==
    IF dir \notin DOMAIN fs \/ ~fs[dir].readable
    THEN [receipts |-> <<>>,
          err |-> Wrapf("failed to read directory", <<dir>>, Errorf("os.PathError", <<>>))]
    ELSE LET r == StatFiles(dir, fs[dir].items, <<>>)
         IN IF r.err # NoError THEN r
            ELSE IF Len(r.receipts) > 3
            THEN [receipts |-> <<>>,
                  err |-> Errorf("found too many receipt files",
                                 <<FormatInt(Len(r.receipts)), dir>>)]
            ELSE r

\* number of items of the directories checkAndGetFiles is called on
MaxDirItems == 4

\* the sizes of TestCheckAndGetFiles, with the two sides of the limit
ItemPool(name) ==
    {RegularFile(name, 100), RegularFile(name, 2097152), RegularFile(name, 2097153),
     GoneFile(name), Directory(name)}

\* os.ReadDir lists by file name: the i-th item is named f<i>
DirsOf(n) ==
    {items \in [1..n -> UNION {ItemPool(<<"f">> \o FormatInt(i)) : i \in 1..n}] :
        \A i \in 1..n : items[i].name = <<"f">> \o FormatInt(i)}

InitFiles ==
    /\ pc = "call"
    /\ \E n \in 0..MaxDirItems :
        \E items \in DirsOf(n) :
            \E readable \in BOOLEAN :
                /\ readable = FALSE => n = 0
                /\ args = [dir |-> <<"d">>,
                           fs |-> (<<"d">> :> [readable |-> readable, items |-> items])]
    /\ ret = Idle
    /\ ParserIdle

CallCheckAndGetFiles ==
    /\ pc = "call"
    /\ ret' = checkAndGetFiles(args.fs, args.dir)
    /\ pc' = "done"
    /\ UNCHANGED <<args, parserVars>>

NextFiles == CallCheckAndGetFiles

SpecFiles == InitFiles /\ [][NextFiles]_vars

\* the regular files of the directory of the call, in directory order
RegularFilesOf(a) == SelectSeq(a.fs[a.dir].items, LAMBDA f : ~f.isDir)

\* C21: checkAndGetFiles returns the paths of the regular files directly inside
\* the directory, sub-directories ignored; up to 3 files of up to exactly 2 MiB
\* each are accepted, a 4th file or a file of 2 MiB and one byte gives an error,
\* and an empty directory gives an empty list without error.
C21_FilesAndLimits ==
    pc = "done" /\ args.fs[args.dir].readable =>
        LET regular == RegularFilesOf(args)
            tooMany == Len(regular) >= 4
            tooLarge == \E i \in DOMAIN regular : regular[i].size >= 2097153
            gone == \E i \in DOMAIN regular : regular[i].gone
        IN /\ (tooMany \/ tooLarge) => ret.err # NoError
           /\ ~tooMany /\ ~tooLarge /\ ~gone =>
                /\ ret.err = NoError
                /\ ret.receipts = [i \in DOMAIN regular |-> Join(args.dir, regular[i].name)]
           /\ regular = <<>> => ret.err = NoError /\ ret.receipts = <<>>

C21_Witness ==
    /\ pc = "done"
    /\ ret.err = NoError
    /\ Len(ret.receipts) = 3
    /\ \E i \in DOMAIN args.fs[args.dir].items : args.fs[args.dir].items[i].isDir
    /\ \E i \in DOMAIN args.fs[args.dir].items :
        /\ ~args.fs[args.dir].items[i].isDir
        /\ args.fs[args.dir].items[i].size = 2097152

----------------------------------------------------------------------------
(* Receipt folders: createEmployeeEntryMap and addReceipts *)

\* the "Lastname Firstname" key of createEmployeeEntryMap alone
LastFirstKeyOnly(entry) ==
    IF entry.Party.type # "Employee" THEN {}
    ELSE {ToLower(TrimSpace(entry.Party.Lastname \o <<" ">> \o entry.Party.Firstname))}

\* the keys createEmployeeEntryMap files an entry under: none unless the party
\* is an employee, else "lastname firstname" and, when different, the reverse
EmployeeKeys(entry) ==
    IF entry.Party.type # "Employee" THEN {}
    ELSE LET emp == entry.Party
             lnFn == ToLower(TrimSpace(emp.Lastname \o <<" ">> \o emp.Firstname))
             fnLn == ToLower(TrimSpace(emp.Firstname \o <<" ">> \o emp.Lastname))
         IN (IF lnFn # <<" ">> THEN {lnFn} ELSE {})
            \cup (IF fnLn # <<" ">> /\ lnFn # fnLn THEN {fnLn} ELSE {})

\* createEmployeeEntryMap: each key with the indices (from 0) of its entries,
\* in the order of the entries
createEmployeeEntryMap(list) ==
    [k \in UNION {EmployeeKeys(list[i]) : i \in DOMAIN list} |->
        SelectSeq([i \in DOMAIN list |-> i - 1],
                  LAMBDA index : k \in EmployeeKeys(list[index + 1]))]

\* entries[i].Receipts = receipts for every index i of indices
SetReceipts(list, indices, receipts) ==
    [i \in DOMAIN list |->
        IF Contains(indices, i - 1) THEN [list[i] EXCEPT !.Receipts = receipts]
        ELSE list[i]]

\* number of entries addReceipts is given
MaxEntries == 2

ReceiptsRoot == <<"r">>

\* the names os.ReadDir can list in the root, in the order it lists them
FolderNames == {<<"1">>, <<"2">>, <<"A", " ", "s">>, <<"s", " ", "a">>}

RootFileNames == <<<<"g", "1">>, <<"g", "2">>, <<"g", "3">>, <<"g", "4">>>>

ReadDirOrder ==
    <<<<"1">>, <<"2">>, <<"A", " ", "s">>, <<"g", "1">>, <<"g", "2">>, <<"g", "3">>,
      <<"g", "4">>, <<"s", " ", "a">>>>

\* what a sub-folder can hold: nothing, three files of which one of exactly
\* 2 MiB, four files, one file of 2 MiB and one byte, or no read permission
FolderContents ==
    {[readable |-> TRUE, items |-> <<>>],
     [readable |-> TRUE,
      items |-> <<RegularFile(<<"a">>, 2097152), RegularFile(<<"b">>, 1),
                  RegularFile(<<"c">>, 1)>>],
     [readable |-> TRUE,
      items |-> <<RegularFile(<<"a">>, 1), RegularFile(<<"b">>, 1),
                  RegularFile(<<"c">>, 1), RegularFile(<<"d">>, 1)>>],
     [readable |-> TRUE, items |-> <<RegularFile(<<"a">>, 2097153)>>],
     Unreadable}

\* the items of the root: the sub-folders of names and the first k root files
RootItems(names, k) ==
    SelectSeq([i \in DOMAIN ReadDirOrder |->
                  IF ReadDirOrder[i] \in FolderNames THEN Directory(ReadDirOrder[i])
                  ELSE RegularFile(ReadDirOrder[i], 100)],
              LAMBDA item : \/ item.name \in names
                            \/ \E j \in 1..k : RootFileNames[j] = item.name)

\* the parties of the entries: two employees and no party
PartyPool ==
    {[type |-> "Employee", ID |-> <<"E", "1">>, Lastname |-> <<"S">>, Firstname |-> <<"A">>],
     [type |-> "Employee", ID |-> <<"E", "2">>, Lastname |-> <<"D">>, Firstname |-> <<"J">>],
     NoParty}

InitReceipts ==
    /\ pc = "call"
    /\ \E names \in SUBSET FolderNames :
        \E subs \in [names -> FolderContents] :
            \E k \in {0, 1, 4} :
                \E readable \in BOOLEAN :
                    \E folder \in {EmptyStr, ReceiptsRoot} :
                        \E n \in 0..MaxEntries :
                            \E parties \in [1..n -> PartyPool] :
                                \E had \in BOOLEAN :
                                    /\ (~readable \/ folder = EmptyStr) => names = {} /\ k = 0
                                    /\ folder = EmptyStr => readable
                                    /\ k > 0 => Cardinality(names) <= 1
                                    /\ args = [receiptsFolder |-> folder,
                                               fs |-> [p \in {ReceiptsRoot} \cup {Join(ReceiptsRoot, x) : x \in names} |->
                                                         IF p = ReceiptsRoot
                                                         THEN [readable |-> readable, items |-> RootItems(names, k)]
                                                         ELSE subs[CHOOSE x \in names : Join(ReceiptsRoot, x) = p]],
                                               entries |-> [i \in 1..n |->
                                                               [ZeroEntry EXCEPT
                                                                   !.Party = parties[i],
                                                                   !.Receipts = IF had THEN <<<<"o", "l", "d">>>>
                                                                                ELSE <<>>]]]
    /\ entries = args.entries
    /\ ret = Idle
    /\ reader = <<>>
    /\ rowIndex = 0
    /\ colMap = Idle
    /\ maps = Idle
    /\ err = NoError
    /\ file = "none"
    /\ deferred = <<>>
    /\ submitted = <<>>
    /\ goroutine = Idle
    /\ pipe = Idle
    /\ client = Idle

\* part_002:82-116: nothing to do, the root cannot be read, global receipts, or
\* the sub-folders and the employee map are ready for the loop
ReceiptsBegin ==
    /\ pc = "call"
    /\ IF args.receiptsFolder = EmptyStr
       THEN err' = NoError /\ pc' = "done" /\ UNCHANGED <<entries, ret, rowIndex>>
       ELSE IF ~args.fs[args.receiptsFolder].readable
       THEN /\ err' = Wrapf("failed to read root receipts folder", <<args.receiptsFolder>>,
                            Errorf("os.PathError", <<>>))
            /\ pc' = "done"
            /\ UNCHANGED <<entries, ret, rowIndex>>
       ELSE LET items == args.fs[args.receiptsFolder].items
                subfolders == SelectSeq(items, LAMBDA item : item.isDir)
                rootFiles == SelectSeq(items, LAMBDA item : ~item.isDir)
            IN IF subfolders = <<>> /\ rootFiles # <<>>
               THEN /\ ret' = checkAndGetFiles(args.fs, args.receiptsFolder)
                    /\ err' = ret'.err
                    /\ entries' = IF ret'.err # NoError THEN entries
                                  ELSE [i \in DOMAIN entries |->
                                           [entries[i] EXCEPT !.Receipts = ret'.receipts]]
                    /\ pc' = "done"
                    /\ UNCHANGED rowIndex
               ELSE /\ ret' = [subfolders |-> subfolders,
                               employeeMap |-> createEmployeeEntryMap(entries)]
                    /\ rowIndex' = 1
                    /\ pc' = "folders"
                    /\ UNCHANGED <<entries, err>>
    /\ UNCHANGED <<args, reader, colMap, maps, file, deferred, submitted, goroutine, pipe, client>>

\* part_002:118-151: one sub-folder of the loop
ReceiptsFolder ==
    /\ pc = "folders"
    /\ rowIndex <= Len(ret.subfolders)
    /\ LET folderName == ret.subfolders[rowIndex].name
           r == checkAndGetFiles(args.fs, Join(args.receiptsFolder, folderName))
           entryNum == Atoi(folderName)
           entryIndex == entryNum.value - 1
           key == ToLower(folderName)
       IN IF r.err # NoError
          THEN /\ err' = Wrapf("error processing receipt folder", <<folderName>>, r.err)
               /\ pc' = "done"
               /\ UNCHANGED <<entries, rowIndex>>
          ELSE /\ entries' =
                    IF r.receipts = <<>> THEN entries
                    ELSE IF entryNum.ok /\ entryIndex >= 0 /\ entryIndex < Len(entries)
                    THEN SetReceipts(entries, <<entryIndex>>, r.receipts)
                    ELSE IF key \in DOMAIN ret.employeeMap
                    THEN SetReceipts(entries, ret.employeeMap[key], r.receipts)
                    ELSE entries
               /\ rowIndex' = rowIndex + 1
               /\ UNCHANGED <<pc, err>>
    /\ UNCHANGED <<args, ret, reader, colMap, maps, file, deferred, submitted, goroutine, pipe, client>>

\* part_002:153: the loop is over
ReceiptsEnd ==
    /\ pc = "folders"
    /\ rowIndex > Len(ret.subfolders)
    /\ err' = NoError
    /\ pc' = "done"
    /\ UNCHANGED <<args, ret, reader, rowIndex, colMap, maps, entries, file, deferred, submitted, goroutine, pipe, client>>

NextReceipts ==
    \/ ReceiptsBegin
    \/ ReceiptsFolder
    \/ ReceiptsEnd

SpecReceipts == InitReceipts /\ [][NextReceipts]_vars

\* the sub-folders of the root folder of the call, in directory order
SubfoldersOf(a) == SelectSeq(a.fs[a.receiptsFolder].items, LAMBDA item : item.isDir)

\* the paths of the files of a directory that can be read
PathsIn(a, dir) ==
    LET regular == SelectSeq(a.fs[dir].items, LAMBDA item : ~item.isDir)
    IN [i \in DOMAIN regular |-> Join(dir, regular[i].name)]

\* the folder named name is meant for entry i: by its number when the name is a
\* number between 1 and the number of entries, else by the name of the employee
FolderMatches(a, name, i) ==
    IF AllDigits(name) /\ DecimalVal(name) \in 1..Len(a.entries)
    THEN i = DecimalVal(name)
    ELSE /\ a.entries[i].Party.type = "Employee"
         /\ ToLower(name) \in
                {ToLower(a.entries[i].Party.Lastname \o <<" ">> \o a.entries[i].Party.Firstname),
                 ToLower(a.entries[i].Party.Firstname \o <<" ">> \o a.entries[i].Party.Lastname)}

\* the positions of the non-empty sub-folders meant for entry i
MatchingFolders(a, i) ==
    {j \in DOMAIN SubfoldersOf(a) :
        /\ PathsIn(a, Join(a.receiptsFolder, SubfoldersOf(a)[j].name)) # <<>>
        /\ FolderMatches(a, SubfoldersOf(a)[j].name, i)}

\* C22: after a successful addReceipts, an empty folder path has changed nothing;
\* a folder with files and no sub-folder has given all its files to every entry;
\* otherwise an entry matched by no non-empty sub-folder, by its number or by its
\* employee's name in either order and any case, keeps its receipts, and a
\* matched entry holds the files of the matching sub-folder listed last.
C22_ReceiptsByLayout ==
    pc = "done" /\ err = NoError =>
        IF args.receiptsFolder = EmptyStr THEN entries = args.entries
        ELSE IF SubfoldersOf(args) = <<>> /\ args.fs[args.receiptsFolder].items # <<>>
        THEN entries = [i \in DOMAIN args.entries |->
                           [args.entries[i] EXCEPT
                               !.Receipts = PathsIn(args, args.receiptsFolder)]]
        ELSE entries =
                [i \in DOMAIN args.entries |->
                    LET hits == MatchingFolders(args, i)
                        last == CHOOSE j \in hits : \A h \in hits : h <= j
                    IN IF hits = {} THEN args.entries[i]
                       ELSE [args.entries[i] EXCEPT
                                !.Receipts = PathsIn(args, Join(args.receiptsFolder,
                                                               SubfoldersOf(args)[last].name))]]

C22_Witness ==
    /\ pc = "done"
    /\ err = NoError
    /\ Len(entries) = 2
    /\ entries[1].Party.type = "Employee"
    /\ entries[1].Receipts # <<>>
    /\ entries[1].Receipts[1] = Join(Join(ReceiptsRoot, <<"1">>), <<"a">>)
    /\ entries[2].Receipts # <<>>
    /\ entries[2].Receipts[1] = Join(Join(ReceiptsRoot, <<"A", " ", "s">>), <<"a">>)

\* C28: when addReceipts returns an error, the Receipts of every entry are what
\* they were before the call.
C28_AtomicOnFailure ==
    pc = "done" /\ err # NoError => entries = args.entries

\* C29: after a successful addReceipts on entries that had no receipts, every
\* entry holds at most 3 paths, all of them files of at most 2 MiB of one and the
\* same directory: the files of two matching folders are never mixed.
C29_ReceiptsWithinLimits ==
    (/\ pc = "done"
     /\ err = NoError
     /\ \A i \in DOMAIN args.entries : args.entries[i].Receipts = <<>>) =>
        \A i \in DOMAIN entries :
            /\ Len(entries[i].Receipts) <= 3
            /\ \/ entries[i].Receipts = <<>>
               \/ \E dir \in DOMAIN args.fs :
                    \A p \in DOMAIN entries[i].Receipts :
                        \E f \in DOMAIN args.fs[dir].items :
                            /\ ~args.fs[dir].items[f].isDir
                            /\ args.fs[dir].items[f].size <= 2097152
                            /\ entries[i].Receipts[p] = Join(dir, args.fs[dir].items[f].name)

C29_Witness ==
    /\ pc = "done"
    /\ err = NoError
    /\ args.receiptsFolder = ReceiptsRoot
    /\ Len(args.entries) >= 1
    /\ {<<"A", " ", "s">>, <<"s", " ", "a">>} \subseteq
            {SubfoldersOf(args)[j].name : j \in MatchingFolders(args, 1)}
    /\ args.entries[1].Receipts = <<>>
    /\ entries[1].Receipts =
            PathsIn(args, Join(ReceiptsRoot, <<"s", " ", "a">>))
    /\ Len(entries[1].Receipts) = 3

----------------------------------------------------------------------------
(* Further claims on the column mapper and the account resolver *)

\* C23: when the amount field and the stock field are configured with the same
\* non-empty column name and the header holds that name, both fields are mapped
\* to the index of that column.
C23_SharedColumnName ==
    (/\ pc = "done"
     /\ args.columns.Amount = args.columns.Stock
     /\ args.columns.Amount # EmptyStr
     /\ \E i \in DOMAIN args.header : args.header[i] = args.columns.Amount) =>
        /\ ret["Amount"] >= 0
        /\ ret["Amount"] = ret["Stock"]
        /\ args.header[ret["Amount"] + 1] = args.columns.Amount

\* C24: getAccountFromBankBudget returns for every account list, bank name and
\* budget, with an error or with an account of the list, and never fails at run
\* time.
C24_Total ==
    pc = "done" =>
        /\ ~ret.panic
        /\ \/ ret.err # NoError
           \/ ret.result \in {args.accounts[i] : i \in DOMAIN args.accounts}

\* C25: with no bank name supplied and accounts whose bank names are all equal up
\* to letter case, several banks are not reported and the outcome is the one of a
\* call supplying any of these spellings.
C25_BankCaseInsensitive ==
    (/\ pc = "done"
     /\ args.bank = EmptyStr
     /\ args.accounts # <<>>
     /\ \A i, j \in DOMAIN args.accounts :
            EqualFold(args.accounts[i].Bank, args.accounts[j].Bank)) =>
        /\ ret.err.kind # "more than one bank found"
        /\ \A b \in BankNameSet(args.accounts) :
                ret = getAccountFromBankBudget(args.accounts, b, args.budget)

\* C26: an account returned without error is an element of the list, its bank
\* name equals the resolved bank name up to letter case, and its budget is the
\* requested one or undefined.
C26_ReturnedAccountSound ==
    (pc = "done" /\ ~ret.panic /\ ret.err = NoError) =>
        /\ ret.result \in {args.accounts[i] : i \in DOMAIN args.accounts}
        /\ BankResolved(args)
        /\ EqualFold(ret.result.Bank, ResolvedBank(args))
        /\ ret.result.Budget \in {args.budget, BudgetUndefined}

C26_Witness ==
    /\ pc = "done"
    /\ ~ret.panic
    /\ ret.err = NoError
    /\ args.budget = BudgetFON
    /\ ret.result.Budget = BudgetUndefined
    /\ ret.result.Bank # args.bank
    /\ \E i \in DOMAIN args.accounts :
            /\ EqualFold(args.accounts[i].Bank, args.bank)
            /\ args.accounts[i].Budget = BudgetASC
    /\ \E i \in DOMAIN args.accounts : ~EqualFold(args.accounts[i].Bank, args.bank)
    /\ args.accounts[1] # ret.result

----------------------------------------------------------------------------
(* loadImpl: submission of the entries *)

----------------------------------------------------------------------------
(* Client.AddEntry: a goroutine writes the multipart form into an io.Pipe *)
(* whose read end is the body of the POST request                         *)

\* allocation lines and receipts of the entry given to AddEntry
MaxLines == 1

MaxReceiptFiles == 2

loadVars == <<reader, rowIndex, colMap, maps, entries, file, deferred, submitted>>

\* Client.followRedirects that never restores the default
followRedirectsNever(c, follow) == [c EXCEPT !.CheckRedirect = "ErrUseLastResponse"]

\* Client.followRedirects: CheckRedirect is nil to follow redirects, or a function
\* returning http.ErrUseLastResponse
followRedirects(c, follow) ==
    [c EXCEPT !.CheckRedirect = IF follow THEN "nil" ELSE "ErrUseLastResponse"]

\* the writes of the goroutine in order: one per form field, one per receipt
\* (os.Open, CreateFormFile and io.Copy), and the closing boundary of
\* formWriter.Close
FormItems(operation) ==
    LET Field(n) == [kind |-> "field", name |-> n, receipt |-> 0]
        FieldsOf(names) == [i \in DOMAIN names |-> Field(names[i])]
        line == <<"category_id[]", "amount[]", "stock[]", "date_remise_precommande",
                  "ventilation_id[]">>
    IN FieldsOf(<<"_token", "exercice_id", "type", "budget", "date", "name">>)
       \o [i \in 1..(5 * Len(operation.Allocation)) |-> Field(line[((i - 1) % 5) + 1])]
       \o (IF operation.Party.type = "Provider" THEN <<Field("activateFournisseur")>>
           ELSE IF operation.Party.type = "Employee" THEN <<Field("activateSalarie")>>
           ELSE <<>>)
       \o FieldsOf(<<"fournisseur_id", "personne_id", "method_paiement", "compte_id">>)
       \o [i \in DOMAIN operation.Receipts |->
              [kind |-> "file", name |-> "fichiers[]", receipt |-> i]]
       \o FieldsOf(<<"identifiant_pc", "numero_pc", "nom_invite", "prenom_invite",
                     "no_cheque", "banque", "date_remise_souhaitee", "activateUpload",
                     "activateRemarques", "confirm", "submit_value">>)
       \o <<[kind |-> "close", name |-> "boundary", receipt |-> 0]>>

\* writer.CloseWithError: the first close of the write end decides its error
CloseWithError(p) == IF p.wclosed = "open" THEN [p EXCEPT !.wclosed = "error"] ELSE p

\* what c.client.Post returns: an error, or a response with its status code
PostOutcomes ==
    {[err |-> TRUE, status |-> 0], [err |-> FALSE, status |-> 302],
     [err |-> FALSE, status |-> 500]}

InitAddEntry ==
    /\ pc = "call"
    /\ \E n \in 0..MaxLines :
        \E k \in 0..MaxReceiptFiles :
            \E openFails \in 0..k :
                \E party \in {"nil", "Employee", "Provider"} :
                    \E prepare \in {"ok", "getNextEntryNumber", "getToken"} :
                        args = [operation |->
                                    [ZeroEntry EXCEPT
                                        !.Allocation = [i \in 1..n |->
                                            [CategoryID |-> 101, Amount |-> ZeroAmount, Stock |-> 0]],
                                        !.Party = [type |-> party, ID |-> <<"1">>],
                                        !.Receipts = [i \in 1..k |-> Join(ReceiptsRoot, RootFileNames[i])]],
                                prepare |-> prepare,
                                openFails |-> openFails]
    /\ ret = Idle
    /\ err = NoError
    /\ goroutine = [pc |-> "idle", next |-> 1, failed |-> FALSE]
    /\ pipe = [pending |-> FALSE, wclosed |-> "open", rclosed |-> FALSE]
    /\ client = [CheckRedirect |-> "nil", bodyOwed |-> FALSE]
    /\ reader = <<>>
    /\ rowIndex = 0
    /\ colMap = Idle
    /\ maps = Idle
    /\ entries = <<>>
    /\ file = "none"
    /\ deferred = <<>>
    /\ submitted = <<>>

\* part_009:56-67 and 250: the entry number and the token are fetched, the pipe is
\* made, the goroutine is started and redirects are switched off for the POST
AddEntryStart ==
    /\ pc = "call"
    /\ IF args.prepare # "ok"
       THEN /\ err' = Errorf(args.prepare, <<>>)
            /\ pc' = "returned"
            /\ UNCHANGED <<goroutine, client>>
       ELSE /\ goroutine' = [goroutine EXCEPT !.pc = "write"]
            /\ client' = followRedirects(client, FALSE)
            /\ pc' = "post"
            /\ err' = err
    /\ UNCHANGED <<args, ret, pipe, loadVars>>

\* part_009:73-246: the goroutine starts its next write. A receipt that os.Open
\* cannot open, or a pipe whose read end is closed, makes it close the pipe with
\* the error and return; otherwise the write waits for a reader
WriterWrite ==
    /\ goroutine.pc = "write"
    /\ LET item == FormItems(args.operation)[goroutine.next]
       IN IF \/ item.kind = "file" /\ args.openFails = item.receipt
             \/ pipe.rclosed
          THEN /\ pipe' = CloseWithError(pipe)
               /\ goroutine' = [goroutine EXCEPT !.pc = "deferred", !.failed = TRUE]
          ELSE /\ pipe' = [pipe EXCEPT !.pending = TRUE]
               /\ goroutine' = [goroutine EXCEPT !.pc = "blocked"]
    /\ UNCHANGED <<pc, args, ret, err, client, loadVars>>

\* the pending write returns: the data was read and the goroutine goes on, or
\* the read end was closed and the goroutine closes the pipe with the error
WriterWakes ==
    /\ goroutine.pc = "blocked"
    /\ ~pipe.pending \/ pipe.rclosed
    /\ IF ~pipe.pending
       THEN /\ goroutine' =
                [goroutine EXCEPT
                    !.next = @ + 1,
                    !.pc = IF goroutine.next = Len(FormItems(args.operation))
                           THEN "deferred" ELSE "write"]
            /\ pipe' = pipe
       ELSE /\ pipe' = CloseWithError([pipe EXCEPT !.pending = FALSE])
            /\ goroutine' = [goroutine EXCEPT !.pc = "deferred", !.failed = TRUE]
    /\ UNCHANGED <<pc, args, ret, err, client, loadVars>>

\* part_009:71: the deferred formWriter.Close writes the closing boundary, at
\* once with an error when the pipe is closed at either end
WriterDeferred ==
    /\ goroutine.pc = "deferred"
    /\ goroutine' = [goroutine EXCEPT !.pc = "closing"]
    /\ pipe' = [pipe EXCEPT !.pending = ~pipe.rclosed /\ pipe.wclosed = "open"]
    /\ UNCHANGED <<pc, args, ret, err, client, loadVars>>

\* part_009:70: the deferred writer.Close once that write has returned; the
\* goroutine ends
WriterReturn ==
    /\ goroutine.pc = "closing"
    /\ ~pipe.pending \/ pipe.rclosed
    /\ pipe' = [pipe EXCEPT !.pending = FALSE,
                            !.wclosed = IF @ = "open" THEN "EOF" ELSE @]
    /\ goroutine' = [goroutine EXCEPT !.pc = "returned"]
    /\ UNCHANGED <<pc, args, ret, err, client, loadVars>>

\* part_009:251: the transport reads the request body
TransportRead ==
    /\ pc = "post"
    /\ pipe.pending
    /\ ~pipe.rclosed
    /\ pipe' = [pipe EXCEPT !.pending = FALSE]
    /\ UNCHANGED <<pc, args, ret, err, goroutine, client, loadVars>>

\* part_009:251: Post returns, after the whole body or before; the transport has
\* closed the body or still owes its Close
PostReturns ==
    /\ pc = "post"
    /\ \E outcome \in PostOutcomes :
        \E closed \in BOOLEAN :
            /\ ret' = outcome
            /\ pipe' = IF closed THEN [pipe EXCEPT !.rclosed = TRUE] ELSE pipe
            /\ client' = [client EXCEPT !.bodyOwed = ~closed]
    /\ pc' = "posted"
    /\ UNCHANGED <<args, err, goroutine, loadVars>>

\* the transport closes the request body, as every RoundTripper does in the end
TransportCloseBody ==
    /\ client.bodyOwed
    /\ pipe' = [pipe EXCEPT !.rclosed = TRUE]
    /\ client' = [client EXCEPT !.bodyOwed = FALSE]
    /\ UNCHANGED <<pc, args, ret, err, goroutine, loadVars>>

\* part_009:252-264: redirects are followed again, then the error or the status
\* of the response decides
PostReturned ==
    /\ pc = "posted"
    /\ client' = followRedirects(client, TRUE)
    /\ IF ret.err
       THEN /\ pc' = "drain"
            /\ err' = Wrapf("HTTP POST failed", <<>>, Errorf("url.Error", <<>>))
       ELSE /\ pc' = "returned"
            /\ err' = IF ret.status # 302
                      THEN Errorf("API request failed with status code",
                                  <<FormatInt(ret.status)>>)
                      ELSE NoError
    /\ UNCHANGED <<args, ret, pipe, goroutine, loadVars>>

\* part_009:254-255: io.Copy(io.Discard, reader) reads what is written until the
\* pipe is closed at either end, then AddEntry returns the error
Drain ==
    /\ pc = "drain"
    /\ pipe.rclosed \/ pipe.pending \/ pipe.wclosed # "open"
    /\ IF ~pipe.rclosed /\ pipe.pending
       THEN pipe' = [pipe EXCEPT !.pending = FALSE] /\ pc' = pc
       ELSE pipe' = pipe /\ pc' = "returned"
    /\ UNCHANGED <<args, ret, err, goroutine, client, loadVars>>

NextAddEntry ==
    \/ AddEntryStart
    \/ WriterWrite
    \/ WriterWakes
    \/ WriterDeferred
    \/ WriterReturn
    \/ TransportRead
    \/ PostReturns
    \/ TransportCloseBody
    \/ PostReturned
    \/ Drain

\* the goroutine, the caller and the transport each keep running
SpecAddEntry ==
    /\ InitAddEntry
    /\ [][NextAddEntry]_vars
    /\ WF_vars(WriterWrite \/ WriterWakes \/ WriterDeferred \/ WriterReturn)
    /\ WF_vars(AddEntryStart \/ PostReturned \/ Drain)
    /\ WF_vars(TransportRead \/ PostReturns \/ TransportCloseBody)

====
